---- MODULE Spec2Model ----
(***************************************************************************)
(* Model of the serial protocol decoder of MiniRadio4.py: the              *)
(* RadioController (command dispatcher, capture state machine, reader      *)
(* loop) and the RadioApp entry points that call into it.                  *)
(*                                                                         *)
(* Time is counted in tenths of a second.  A byte is a one-character       *)
(* string; bytes above 0x7f are written "<hh>".  A line, a chunk and a     *)
(* buffer are sequences of bytes.                                          *)
(*                                                                         *)
(* The two threads (the Tk thread calling the dispatcher and the reader    *)
(* thread) are interleaved at the blocking calls of the code: every        *)
(* time.sleep() and every ser.readline() ends a step.                      *)
(***************************************************************************)
EXTENDS Integers, Sequences, FiniteSets, TLC

(* ---------------------------------------------------------------------- *)
(* Program constants                                                       *)
(* ---------------------------------------------------------------------- *)
CMD_TOGGLE_LOG == "t"
CMD_SCREENSHOT == "C"
CMD_SHOW_MEM == "$"
CMD_THEME_EDITOR_TOGGLE == "T"
CMD_THEME_GET == "@"
CMD_VOLUME_UP == "V"

SCREENSHOT_DATA_INACTIVITY_TIMEOUT == 100
MEMORY_DATA_INACTIVITY_TIMEOUT == 12
THEME_DATA_INACTIVITY_TIMEOUT == 30
MEMORY_SLOTS_FULL == 32

(* ---------------------------------------------------------------------- *)
(* Bytes and text                                                          *)
(* ---------------------------------------------------------------------- *)
NL == "\n"
Whitespace == {" ", "\t", "\r", "\n"}
Digits == {"0", "1", "2", "3", "4", "5", "6", "7", "8", "9"}
HexChars == Digits \cup {"a", "b", "c", "d", "e", "f", "A", "B", "C", "D", "E", "F"}
HighBytes == {"<ff>", "<c3>", "<a9>"}

RECURSIVE LStrip(_)
LStrip(s) ==
    IF s # <<>> /\ Head(s) \in Whitespace THEN LStrip(Tail(s)) ELSE s

RECURSIVE RStrip(_)
RStrip(s) ==
    IF s # <<>> /\ s[Len(s)] \in Whitespace THEN RStrip(SubSeq(s, 1, Len(s) - 1)) ELSE s

\* str.strip()
Strip(s) == RStrip(LStrip(s))

LowerLetters == <<"a", "b", "c", "d", "e", "f", "g", "h", "i", "j", "k", "l", "m",
                  "n", "o", "p", "q", "r", "s", "t", "u", "v", "w", "x", "y", "z">>
UpperLetters == <<"A", "B", "C", "D", "E", "F", "G", "H", "I", "J", "K", "L", "M",
                  "N", "O", "P", "Q", "R", "S", "T", "U", "V", "W", "X", "Y", "Z">>

\* str.upper()
LowerSet == {LowerLetters[i] : i \in 1..26}

UpperChar(c) ==
    IF c \in LowerSet
    THEN UpperLetters[CHOOSE i \in 1..26 : LowerLetters[i] = c]
    ELSE c

Upper(s) == [i \in 1..Len(s) |-> UpperChar(s[i])]

\* str.split(','): the comma-separated fields of s
RECURSIVE SplitComma(_)
SplitComma(s) ==
    IF \E i \in 1..Len(s) : s[i] = ","
    THEN LET p == CHOOSE i \in 1..Len(s) : s[i] = "," /\ \A j \in 1..(i - 1) : s[j] # ","
         IN  <<SubSeq(s, 1, p - 1)>> \o SplitComma(SubSeq(s, p + 1, Len(s)))
    ELSE <<s>>

AllIn(s, set) == \A i \in 1..Len(s) : s[i] \in set

\* bytes.decode('ascii') succeeds
AsciiDecodable(b) == \A i \in 1..Len(b) : b[i] \notin HighBytes

\* bytes.decode('utf-8') succeeds: 0xc3 0xa9 is the only multi-byte sequence used
RECURSIVE Utf8Decodable(_)
Utf8Decodable(b) ==
    IF b = <<>> THEN TRUE
    ELSE IF Head(b) \notin HighBytes THEN Utf8Decodable(Tail(b))
    ELSE IF Head(b) = "<c3>" /\ Len(b) >= 2 /\ b[2] = "<a9>" THEN Utf8Decodable(SubSeq(b, 3, Len(b)))
    ELSE FALSE

\* RadioController._is_hex_string
_is_hex_string(s) == s # <<>> /\ AllIn(s, HexChars)

\* \s*\d+\s*
IsPaddedDigits(f) == Strip(f) # <<>> /\ AllIn(Strip(f), Digits)

\* RadioController.DATA_LOG_PATTERN.match(line)
DATA_LOG_PATTERN(line) ==
    LET f == SplitComma(line)
    IN  Len(f) = 15 /\ IsPaddedDigits(f[1])

\* RadioController.MEMORY_SLOT_PATTERN.match(line)
MEMORY_SLOT_PATTERN(line) ==
    LET f == SplitComma(line)
        f1 == IF Len(f) >= 1 /\ f[1] # <<>> /\ Head(f[1]) = "#" THEN Tail(f[1]) ELSE f[1]
    IN  /\ Len(f) = 4
        /\ IsPaddedDigits(f1)
        /\ Len(Strip(f1)) <= 2
        /\ IsPaddedDigits(f[3])

\* RadioController._is_memory_slot_line
_is_memory_slot_line(line) == MEMORY_SLOT_PATTERN(Strip(line))

ThemePrefix == <<"C", "o", "l", "o", "r", " ", "t", "h", "e", "m", "e", " ">>

\* (?:x[0-9a-fA-F]{4})+
IsColorTokens(g) ==
    /\ g # <<>>
    /\ Len(g) % 5 = 0
    /\ \A i \in 1..Len(g) : IF i % 5 = 1 THEN g[i] = "x" ELSE g[i] \in HexChars

\* the text after "Color theme <label>:" and the white space that follows it
ThemeTail(line) ==
    LET p == CHOOSE i \in 13..Len(line) : line[i] = ":" /\ \A j \in 13..(i - 1) : line[j] # ":"
    IN  LStrip(SubSeq(line, p + 1, Len(line)))

\* RadioController.THEME_STRING_LINE_PATTERN.match(line) is not None
THEME_STRING_LINE_PATTERN(line) ==
    /\ Len(line) > 12
    /\ SubSeq(line, 1, 12) = ThemePrefix
    /\ \E i \in 13..Len(line) : line[i] = ":"
    /\ IsColorTokens(ThemeTail(line))

\* match.group(1)
ThemeGroup1(line) == ThemeTail(line)

\* "Error: Expected newline" in line_str: sub occurs in s
Contains(sub, s) ==
    \E i \in 1..(Len(s) - Len(sub) + 1) : SubSeq(s, i, i + Len(sub) - 1) = sub


\* bytes.decode('utf-8'): 0xc3 0xa9 becomes one character
RECURSIVE Utf8Decode(_)
Utf8Decode(b) ==
    IF b = <<>> THEN <<>>
    ELSE IF Head(b) = "<c3>" THEN <<"e'">> \o Utf8Decode(SubSeq(b, 3, Len(b)))
    ELSE <<Head(b)>> \o Utf8Decode(Tail(b))

\* the first line of a buffer and the rest: bytes.split(b'\n', 1)
FirstNewline(b) == CHOOSE i \in 1..Len(b) : b[i] = NL /\ \A j \in 1..(i - 1) : b[j] # NL
HasNewline(b) == \E i \in 1..Len(b) : b[i] = NL
LineBefore(b) == SubSeq(b, 1, FirstNewline(b) - 1)
RestAfter(b) == SubSeq(b, FirstNewline(b) + 1, Len(b))

(* ---------------------------------------------------------------------- *)
(* Bounds of the model and the lines the device sends                      *)
(* ---------------------------------------------------------------------- *)
MaxTime == 102          \* the clock of Spec stops here
ImageHorizon == 102     \* the clock of SpecImage stops here
MemHorizon == 14        \* the clock of SpecMem stops here
MaxQueue == 2           \* events waiting in data_queue
MaxHexLen == 4          \* hex characters the device sends for one image
ShortBurst == 1         \* slot lines the device sends per request (Spec)
LongBurst == 33         \* slot lines the device sends per request (SpecMem)
MaxErrors == 2          \* read errors the reader meets on one connection
MaxStream == 6          \* bytes the device sends on one connection (SpecStream)

DigitChars == <<"0", "1", "2", "3", "4", "5", "6", "7", "8", "9">>
NumStr(n) == IF n < 10 THEN <<DigitChars[n + 1]>>
             ELSE <<DigitChars[(n \div 10) + 1], DigitChars[(n % 10) + 1]>>

HexLineA == <<"4", "2">>
HexLineB == <<"4", "d">>
OkLine == <<"O", "K">>
LogLine == <<"1", ",", ",", ",", ",", ",", ",", ",", ",", ",", ",", ",", ",", ",", ",">>
NoiseLine == <<"?">>
ThemeLine == ThemePrefix \o <<"A", ":", "x", "0", "0", "1", "F">>
BadLine == <<"<ff>">>
SlotLine(n) == NumStr(n) \o <<",", ",", "9", ",">>

\* what one ser.readline() returns: a line with its newline, or a piece of one
CR == "\r"
Chunks == { LogLine \o <<NL>>, ThemeLine \o <<CR, NL>>, BadLine \o <<NL>>, OkLine \o <<NL>> }
HexChunks == { HexLineA \o HexLineB \o <<NL>> }
ImageChunks == { LogLine \o <<NL>>, OkLine \o <<CR, NL>>, NoiseLine \o <<NL>>,
                 BadLine \o <<NL>>, <<NL>> }
ImageHexChunks == { HexLineA \o <<CR, NL>>, HexLineB \o <<NL>>, <<"4">> }
Utf8Line == <<"<c3>", "<a9>">>
LinkChunks == {Utf8Line \o <<NL>>, ThemeLine \o <<CR, NL>>, NoiseLine \o <<NL>>,
               LogLine \o <<NL>>, <<NL>>}
MemChunks == { LogLine \o <<NL>>, OkLine \o <<NL>>, NoiseLine \o <<NL>> }

HexCount(b) == Cardinality({i \in 1..Len(b) : b[i] \in HexChars})

(* ---------------------------------------------------------------------- *)
(* State                                                                   *)
(* ---------------------------------------------------------------------- *)
VARIABLES
    ser_open,                       \* self.ser and self.ser.is_open
    running,
    data_queue,
    expecting_screenshot_data, screenshot_hex_buffer, last_screenshot_hex_byte_time,
    expecting_memory_slots, memory_slots_buffer, last_memory_slot_time,
    expecting_theme_string, theme_string_buffer, last_theme_data_time,
    theme_get_sequence_active,
    log_is_on_before_special_op,
    line_assembly_buffer_bytes,
    connected,                      \* RadioApp.connected
    now,                            \* time.time()
    cpc,                            \* where the Tk thread is
    rpc,                            \* where the reader thread is
    rpc0,                           \* where the reader thread of the connection before is
    rafter,                         \* lines the reader puts once _finalize_special_op returns
    devSlot,                        \* the slot number the device sends next
    act,                            \* the step taken last
    wrote,                          \* the commands the last step wrote to the port
    rx,                             \* what the last step read from the port
    fin,                            \* the finalization that emitted its event in the last step
    g_hex, g_hexOnly,               \* image capture: hex received since the request
    g_mem, g_memOnly,               \* memory capture: slot lines received since the request
    g_lastRx,                       \* when bytes were last received
    g_themeOutstanding,             \* a theme fetch was requested and has not finalized
    watch,                          \* the g_hex .. g_lastRx record of what was received is kept
    link,                           \* reads and writes on the open port succeed
    devLog,                         \* the device is logging: flipped by every toggle-log it receives
    g_pre,                          \* per open capture: a toggle-log was written before its request
    g_editorOdd,                    \* theme-editor toggles written on this connection: odd
    g_fetchToggles,                 \* theme-editor toggles written for the fetch under way
    g_stopOpen,                     \* disconnect() was called on this connection with a capture open
    g_connectsOdd,                  \* connect() has succeeded an odd number of times
    g_readerErrors,                 \* serial_error_disconnect events the reader has put on this connection
    audit,                          \* the devLog .. g_stopOpen record of what was written is kept
    queue_item,                     \* process_serial_queue: the item it took last
    telemetry,                      \* the fields the telemetry display shows
    image_bytes,                    \* display_screenshot: the bytes it decoded last
    scheduled,                      \* an after() call for process_serial_queue is pending
    ui,                             \* queue_item .. image_bytes are followed
    g_stream, g_lines,              \* the bytes read, and the lines handled, on this connection
    trace,                          \* the g_stream, g_lines record of what was read is kept
    fm_scan_active, fm_scan_stop_requested,   \* RadioApp fields
    scan_threads,                   \* _perform_fm_scan threads that have not returned
    after_complete,                 \* after(0) calls of _fm_scan_complete that are pending
    g_scans,                        \* scans start_fm_scan has started
    g_completes                     \* calls of _fm_scan_complete made

ctl == <<ser_open, running, data_queue,
         expecting_screenshot_data, screenshot_hex_buffer, last_screenshot_hex_byte_time,
         expecting_memory_slots, memory_slots_buffer, last_memory_slot_time,
         expecting_theme_string, theme_string_buffer, last_theme_data_time,
         theme_get_sequence_active, log_is_on_before_special_op,
         line_assembly_buffer_bytes>>
ghost == <<g_hex, g_hexOnly, g_mem, g_memOnly, g_lastRx, g_themeOutstanding>>
audited == <<devLog, g_pre, g_editorOdd, g_fetchToggles, g_stopOpen, g_connectsOdd>>
shown == <<queue_item, telemetry, image_bytes>>
traced == <<g_stream, g_lines>>
scan == <<fm_scan_active, fm_scan_stop_requested, scan_threads, after_complete,
          g_scans, g_completes>>
vars == <<ctl, connected, now, cpc, rpc, rafter, devSlot, act, wrote, rx, fin, ghost, watch,
          link, audited, g_readerErrors, audit,
          shown, scheduled, ui, traced, trace, rpc0, scan>>

ssVars == <<expecting_screenshot_data, screenshot_hex_buffer, last_screenshot_hex_byte_time>>
memVars == <<expecting_memory_slots, memory_slots_buffer, last_memory_slot_time>>
themeVars == <<expecting_theme_string, theme_string_buffer, last_theme_data_time,
               theme_get_sequence_active>>

NoRx == [kind |-> "none", text |-> <<>>]
NoFin == [op |-> "none", buf |-> <<>>]
Operations == {"Screenshot", "Memory", "ThemeGet"}
NoPre == [operation_type \in Operations |-> FALSE]
NoItem == [type |-> "none", data |-> <<>>]
NoTelemetry == <<>>

\* the text of an error event
Msg(text) == <<text>>

\* an item of data_queue: a (type, data) tuple, or a bare line (type "line")
Ev(type, data) == [type |-> type, data |-> data]

\* RadioController.__init__
InitState ==
    /\ ser_open = FALSE /\ running = FALSE
    /\ data_queue = <<>>
    /\ expecting_screenshot_data = FALSE /\ screenshot_hex_buffer = <<>>
    /\ last_screenshot_hex_byte_time = 0
    /\ expecting_memory_slots = FALSE /\ memory_slots_buffer = <<>>
    /\ last_memory_slot_time = 0
    /\ expecting_theme_string = FALSE /\ theme_string_buffer = <<>>
    /\ last_theme_data_time = 0 /\ theme_get_sequence_active = FALSE
    /\ log_is_on_before_special_op = FALSE
    /\ line_assembly_buffer_bytes = <<>>
    /\ connected = FALSE
    /\ now = 1
    /\ cpc = "idle" /\ rpc = "stopped" /\ rafter = <<>>
    /\ devSlot = 0
    /\ act = "init" /\ wrote = <<>> /\ rx = NoRx /\ fin = NoFin
    /\ g_hex = <<>> /\ g_hexOnly = FALSE
    /\ g_mem = <<>> /\ g_memOnly = FALSE
    /\ g_lastRx = 0
    /\ g_themeOutstanding = FALSE
    /\ link = TRUE
    /\ devLog = FALSE
    /\ g_pre = NoPre /\ g_editorOdd = FALSE /\ g_fetchToggles = 0
    /\ g_stopOpen = FALSE /\ g_connectsOdd = FALSE
    /\ rpc0 = "stopped"
    /\ fm_scan_active = FALSE /\ fm_scan_stop_requested = FALSE
    /\ scan_threads = 0 /\ after_complete = 0 /\ g_scans = 0 /\ g_completes = 0
    /\ g_readerErrors = 0
    /\ queue_item = NoItem /\ telemetry = NoTelemetry /\ image_bytes = <<>>
    /\ scheduled = TRUE
    /\ g_stream = <<>> /\ g_lines = <<>>

\* the record of what was received is kept where a property reads it
Init == InitState /\ watch = FALSE /\ audit = FALSE /\ ui = FALSE /\ trace = FALSE
InitWatch == InitState /\ watch = TRUE /\ audit = FALSE /\ ui = FALSE /\ trace = FALSE
\* the record of what was written is kept where a property reads it
InitAudit == InitState /\ watch = FALSE /\ audit = TRUE /\ ui = FALSE /\ trace = FALSE


(* ---------------------------------------------------------------------- *)
(* Command dispatcher (Tk thread)                                          *)
(* ---------------------------------------------------------------------- *)

\* RadioController._send_raw_command: what reaches the port
_send_raw_command(cmd_char) == IF ser_open /\ link THEN <<cmd_char>> ELSE <<>>

\* self.ser.write in send_command, line 134: what reaches the port
SerWrite(cmd) == IF link THEN <<cmd>> ELSE <<>>

\* send_command, lines 140-141: a write that raised puts the disconnect event
SendOutcome ==
    IF link THEN UNCHANGED data_queue
    ELSE /\ Len(data_queue) < MaxQueue
         /\ data_queue' = Append(data_queue, Ev("serial_error_disconnect", Msg("Send error")))

Has(written, cmd) == \E i \in 1..Len(written) : written[i] = cmd

\* the record of what was written, after the step label that wrote written and ended
\* the capture closed ("none" when it ended none)
Audit(label, written, closed) ==
    IF ~audit THEN UNCHANGED audited
    ELSE /\ devLog' = IF Has(written, CMD_TOGGLE_LOG) THEN ~devLog ELSE devLog
         /\ g_connectsOdd' = IF label = "connect" THEN ~g_connectsOdd ELSE g_connectsOdd
         /\ g_stopOpen' =
               IF label = "connect" THEN FALSE
               ELSE IF \/ label = "disconnect"
                       \/ /\ label = "process_serial_queue" /\ connected
                          /\ Head(data_queue).type = "serial_error_disconnect"
               THEN (expecting_screenshot_data \/ expecting_memory_slots
                       \/ expecting_theme_string)
               ELSE g_stopOpen
         /\ g_editorOdd' =
               IF label \in {"connect", "disconnect_close"} THEN FALSE
               ELSE IF Has(written, CMD_THEME_EDITOR_TOGGLE) THEN ~g_editorOdd
               ELSE g_editorOdd
         /\ g_fetchToggles' =
               IF label \in {"connect", "disconnect_close", "finalize_theme"} THEN 0
               ELSE IF label = "request_radio_theme" /\ written # <<>>
               THEN (IF Has(written, CMD_THEME_EDITOR_TOGGLE) THEN 1 ELSE 0)
               ELSE IF Has(written, CMD_THEME_EDITOR_TOGGLE) THEN g_fetchToggles + 1
               ELSE g_fetchToggles
         /\ g_pre' =
               IF label \in {"connect", "disconnect_close"} THEN NoPre
               ELSE IF label = "send_screenshot"
               THEN [g_pre EXCEPT !["Screenshot"] = TRUE]
               ELSE IF label = "request_screenshot" /\ Has(written, CMD_SCREENSHOT)
               THEN [g_pre EXCEPT !["Screenshot"] = FALSE]
               ELSE IF label = "send_show_mem"
               THEN [g_pre EXCEPT !["Memory"] = TRUE]
               ELSE IF label = "refresh_memory" /\ Has(written, CMD_SHOW_MEM)
               THEN [g_pre EXCEPT !["Memory"] = FALSE]
               ELSE IF label = "request_radio_theme" /\ written # <<>>
               THEN [g_pre EXCEPT !["ThemeGet"] = Has(written, CMD_TOGGLE_LOG)]
               ELSE IF closed \in Operations THEN [g_pre EXCEPT ![closed] = FALSE]
               ELSE g_pre

\* RadioApp.request_screenshot lets the request through
ScreenshotRequestAllowed == ~expecting_screenshot_data

\* RadioApp.refresh_memory_slots_from_radio lets the request through
MemoryRequestAllowed == TRUE

\* faulty variant: the guard tests expecting_theme_string alone
ThemeRequestAllowedFlagOnly == ~expecting_theme_string

\* RadioApp.request_radio_theme lets the request through
ThemeRequestAllowed == ~(expecting_theme_string \/ theme_get_sequence_active)

\* what a step of the Tk thread leaves alone
TkFrame(label, written) ==
    /\ act' = label /\ wrote' = written /\ rx' = NoRx /\ fin' = NoFin
    /\ Audit(label, written, "none")
    /\ UNCHANGED <<rpc, rafter, now, watch, link, g_readerErrors, audit, ui, traced, trace, rpc0>>

\* what a step of the Tk thread outside process_serial_queue leaves alone
TkStep(label, written) ==
    /\ TkFrame(label, written)
    /\ UNCHANGED <<shown, scheduled, scan>>

ResetCaptures ==
    /\ expecting_screenshot_data' = FALSE /\ screenshot_hex_buffer' = <<>>
    /\ last_screenshot_hex_byte_time' = 0
    /\ expecting_memory_slots' = FALSE /\ memory_slots_buffer' = <<>>
    /\ last_memory_slot_time' = 0
    /\ line_assembly_buffer_bytes' = <<>>
    /\ expecting_theme_string' = FALSE /\ theme_string_buffer' = <<>>
    /\ last_theme_data_time' = 0 /\ theme_get_sequence_active' = FALSE

ResetGhost ==
    /\ g_hex' = <<>> /\ g_hexOnly' = FALSE /\ g_mem' = <<>> /\ g_memOnly' = FALSE
    /\ g_lastRx' = 0 /\ g_themeOutstanding' = FALSE /\ devSlot' = 0

\* faulty variant: every command sent flips the remembered logging state
UserToggledAnyCommand(cmd, is_user_toggle) == TRUE

\* send_command, line 136: the command sent is the user's toggle of the log
UserToggled(cmd, is_user_toggle) == cmd = CMD_TOGGLE_LOG /\ is_user_toggle

\* RadioController.connect, called by RadioApp.toggle_connection, lines 78-90
connect ==
    /\ cpc = "idle" /\ ~connected /\ link
    /\ ser_open' = TRUE /\ running' = TRUE
    /\ ResetCaptures
    /\ rpc' = "loop"
    /\ log_is_on_before_special_op' =
          IF UserToggled(CMD_TOGGLE_LOG, TRUE) THEN ~log_is_on_before_special_op
          ELSE log_is_on_before_special_op
    /\ connected' = TRUE
    /\ act' = "connect" /\ wrote' = <<CMD_TOGGLE_LOG>> /\ rx' = NoRx /\ fin' = NoFin
    /\ ResetGhost
    /\ Audit("connect", <<CMD_TOGGLE_LOG>>, "none")
    /\ g_readerErrors' = 0
    /\ UNCHANGED <<data_queue, now, cpc, rafter, watch, link, audit, shown, scheduled,
                   ui, traced, trace, scan>>

\* connect() once the reader thread of the connection before has ended
Connect ==
    /\ rpc = "stopped"
    /\ connect
    /\ UNCHANGED rpc0

\* toggle_connection, lines 1296-1298, and handle_forced_disconnect, lines
\* 1279-1281: a scan under way is told to stop and _fm_scan_complete is called
CompleteOnDisconnect ==
    IF fm_scan_active
    THEN /\ fm_scan_stop_requested' = TRUE
         /\ fm_scan_active' = FALSE
         /\ g_completes' = g_completes + 1
         /\ UNCHANGED <<scan_threads, after_complete, g_scans>>
    ELSE UNCHANGED scan

\* RadioApp.toggle_connection while connected, and RadioController.disconnect up to
\* its time.sleep(0.05)
Disconnect ==
    /\ cpc = "idle" /\ connected
    /\ running' = FALSE
    /\ cpc' = "disc_close"
    /\ TkFrame("disconnect", <<>>)
    /\ CompleteOnDisconnect
    /\ UNCHANGED <<shown, scheduled>>
    /\ UNCHANGED <<ser_open, data_queue, ssVars, memVars, themeVars,
                   log_is_on_before_special_op, line_assembly_buffer_bytes,
                   connected, devSlot, ghost>>

\* faulty variant: disconnect() resets the remembered logging state
DisconnectCloseResetsLog ==
    /\ cpc = "disc_close"
    /\ ser_open' = FALSE
    /\ ResetCaptures
    /\ connected' = FALSE
    /\ cpc' = "idle"
    /\ TkStep("disconnect_close", <<>>)
    /\ ResetGhost
    /\ log_is_on_before_special_op' = FALSE
    /\ UNCHANGED <<running, data_queue>>

\* RadioController.disconnect after the sleep
DisconnectClose ==
    /\ cpc = "disc_close"
    /\ ser_open' = FALSE
    /\ ResetCaptures
    /\ connected' = FALSE
    /\ cpc' = "idle"
    /\ TkStep("disconnect_close", <<>>)
    /\ ResetGhost
    /\ UNCHANGED <<running, data_queue, log_is_on_before_special_op>>

\* faulty variant: the capture is entered once the request has been written
OpenScreenshotAfterWrite ==
    /\ expecting_screenshot_data' = (link \/ expecting_screenshot_data)
    /\ screenshot_hex_buffer' = IF link THEN <<>> ELSE screenshot_hex_buffer
    /\ last_screenshot_hex_byte_time' = IF link THEN now ELSE last_screenshot_hex_byte_time
    /\ g_hex' = <<>> /\ g_hexOnly' = watch
    /\ UNCHANGED <<ser_open, running, memVars, themeVars,
                   log_is_on_before_special_op, line_assembly_buffer_bytes,
                   connected, devSlot, g_mem, g_memOnly, g_lastRx, g_themeOutstanding>>

\* send_command(CMD_SCREENSHOT), lines 124-128
OpenScreenshot ==
    /\ expecting_screenshot_data' = TRUE
    /\ screenshot_hex_buffer' = <<>>
    /\ last_screenshot_hex_byte_time' = now
    /\ g_hex' = <<>> /\ g_hexOnly' = watch
    /\ UNCHANGED <<ser_open, running, memVars, themeVars,
                   log_is_on_before_special_op, line_assembly_buffer_bytes,
                   connected, devSlot, g_mem, g_memOnly, g_lastRx, g_themeOutstanding>>

\* send_command(CMD_SHOW_MEM), lines 129-132
OpenMemory ==
    /\ expecting_memory_slots' = TRUE
    /\ memory_slots_buffer' = <<>>
    /\ last_memory_slot_time' = now
    /\ g_mem' = <<>> /\ g_memOnly' = watch
    /\ devSlot' = 1
    /\ UNCHANGED <<ser_open, running, ssVars, themeVars,
                   log_is_on_before_special_op, line_assembly_buffer_bytes,
                   connected, g_hex, g_hexOnly, g_lastRx, g_themeOutstanding>>

\* request_theme_data, lines 155-158
OpenTheme ==
    /\ expecting_theme_string' = TRUE
    /\ theme_string_buffer' = <<>>
    /\ last_theme_data_time' = now
    /\ theme_get_sequence_active' = TRUE
    /\ UNCHANGED <<ser_open, running, ssVars, memVars,
                   log_is_on_before_special_op, line_assembly_buffer_bytes,
                   connected, devSlot, ghost>>

\* faulty variant: the log is never paused before a capture request
LogPauseNeededNever == FALSE

\* send_command, line 120, and request_theme_data, line 148: the log is paused first
LogPauseNeeded == log_is_on_before_special_op

\* RadioApp.request_screenshot, and send_command(CMD_SCREENSHOT) up to its sleep
RequestScreenshot ==
    /\ cpc = "idle" /\ connected
    /\ IF ~ScreenshotRequestAllowed \/ ~ser_open
       THEN /\ TkStep("request_screenshot", <<>>)
            /\ UNCHANGED <<ctl, connected, cpc, devSlot, ghost>>
       ELSE IF LogPauseNeeded
       THEN /\ TkStep("request_screenshot", _send_raw_command(CMD_TOGGLE_LOG))
            /\ cpc' = "send_screenshot"
            /\ UNCHANGED <<ctl, connected, devSlot, ghost>>
       ELSE /\ TkStep("request_screenshot", SerWrite(CMD_SCREENSHOT))
            /\ OpenScreenshot
            /\ SendOutcome
            /\ UNCHANGED cpc

\* send_command(CMD_SCREENSHOT) after the sleep that follows the log toggle
SendScreenshot ==
    /\ cpc = "send_screenshot"
    /\ TkStep("send_screenshot", SerWrite(CMD_SCREENSHOT))
    /\ OpenScreenshot
    /\ SendOutcome
    /\ cpc' = "idle"

\* RadioApp.refresh_memory_slots_from_radio, and send_command(CMD_SHOW_MEM) up to its sleep
RefreshMemory ==
    /\ cpc = "idle" /\ connected
    /\ IF ~MemoryRequestAllowed \/ ~ser_open
       THEN /\ TkStep("refresh_memory", <<>>)
            /\ UNCHANGED <<ctl, connected, cpc, devSlot, ghost>>
       ELSE IF LogPauseNeeded
       THEN /\ TkStep("refresh_memory", _send_raw_command(CMD_TOGGLE_LOG))
            /\ cpc' = "send_show_mem"
            /\ UNCHANGED <<ctl, connected, devSlot, ghost>>
       ELSE /\ TkStep("refresh_memory", SerWrite(CMD_SHOW_MEM))
            /\ OpenMemory
            /\ SendOutcome
            /\ UNCHANGED cpc

\* send_command(CMD_SHOW_MEM) after the sleep that follows the log toggle
SendShowMem ==
    /\ cpc = "send_show_mem"
    /\ TkStep("send_show_mem", SerWrite(CMD_SHOW_MEM))
    /\ OpenMemory
    /\ SendOutcome
    /\ cpc' = "idle"

\* RadioController.request_theme_data up to its first sleep, lines 143-153
request_theme_data ==
    IF ~ser_open
    THEN /\ Len(data_queue) < MaxQueue
         /\ data_queue' = Append(data_queue, Ev("theme_data_error", Msg("Not connected to radio.")))
         /\ TkStep("request_radio_theme", <<>>)
         /\ UNCHANGED <<ser_open, running, ssVars, memVars, themeVars,
                        log_is_on_before_special_op, line_assembly_buffer_bytes,
                        connected, cpc, devSlot, ghost>>
    ELSE /\ IF LogPauseNeeded
            THEN /\ TkStep("request_radio_theme", _send_raw_command(CMD_TOGGLE_LOG))
                 /\ cpc' = "theme_toggle"
            ELSE /\ TkStep("request_radio_theme", _send_raw_command(CMD_THEME_EDITOR_TOGGLE))
                 /\ cpc' = "theme_get"
         /\ g_themeOutstanding' = TRUE
         /\ UNCHANGED <<ctl, connected, devSlot, g_hex, g_hexOnly, g_mem, g_memOnly, g_lastRx>>

\* RadioApp.request_radio_theme, and request_theme_data up to its first sleep
RequestRadioTheme ==
    /\ cpc = "idle" /\ connected
    /\ IF ~ThemeRequestAllowed
       THEN /\ TkStep("request_radio_theme", <<>>)
            /\ UNCHANGED <<ctl, connected, cpc, devSlot, ghost>>
       ELSE request_theme_data

\* request_theme_data, lines 152-153
ThemeEditorToggle ==
    /\ cpc = "theme_toggle"
    /\ TkStep("theme_editor_toggle", _send_raw_command(CMD_THEME_EDITOR_TOGGLE))
    /\ cpc' = "theme_get"
    /\ UNCHANGED <<ctl, connected, devSlot, ghost>>

\* request_theme_data, lines 155-160
ThemeGet ==
    /\ cpc = "theme_get"
    /\ TkStep("theme_get", _send_raw_command(CMD_THEME_GET))
    /\ OpenTheme
    /\ UNCHANGED data_queue
    /\ cpc' = "idle"

\* RadioApp.send_radio_command with a command that opens no capture
SendRadioCommand ==
    /\ cpc = "idle" /\ connected /\ ser_open
    /\ TkStep("send_radio_command", SerWrite(CMD_VOLUME_UP))
    /\ SendOutcome
    /\ log_is_on_before_special_op' =
          IF link /\ UserToggled(CMD_VOLUME_UP, FALSE) THEN ~log_is_on_before_special_op
          ELSE log_is_on_before_special_op
    /\ UNCHANGED <<ser_open, running, ssVars, memVars, themeVars,
                   line_assembly_buffer_bytes,
                   connected, cpc, devSlot, ghost>>

\* int(): the digit a hexadecimal character stands for
HexDigits == <<"0", "1", "2", "3", "4", "5", "6", "7", "8", "9",
               "a", "b", "c", "d", "e", "f">>
UpperHexDigits == <<"0", "1", "2", "3", "4", "5", "6", "7", "8", "9",
                    "A", "B", "C", "D", "E", "F">>

\* faulty variant: the upper-case digits A..F are not recognised and read as 0
HexValueLowerOnly(c) ==
    IF \E v \in 1..16 : HexDigits[v] = c
    THEN (CHOOSE v \in 1..16 : HexDigits[v] = c) - 1
    ELSE 0

\* bytes.fromhex, line 1039: the value of one hexadecimal character, in either case
HexValue(c) ==
    IF \E v \in 1..16 : HexDigits[v] = c
    THEN (CHOOSE v \in 1..16 : HexDigits[v] = c) - 1
    ELSE (CHOOSE v \in 1..16 : UpperHexDigits[v] = c) - 1

\* bytes.fromhex, line 1039, raises ValueError: an odd number of characters, or a
\* character that is no hexadecimal digit
FromHexRaises(hex_data) == Len(hex_data) % 2 = 1 \/ ~AllIn(hex_data, HexChars)

\* bytes.fromhex, line 1039: one byte, 0..255, for every two characters
FromHex(hex_data) ==
    [i \in 1..(Len(hex_data) \div 2) |->
        16 * HexValue(hex_data[2 * i - 1]) + HexValue(hex_data[2 * i])]

\* bytes.hex, the inverse conversion: two lower-case characters for every byte
BytesHex(b) ==
    [i \in 1..(2 * Len(b)) |->
        IF i % 2 = 1 THEN HexDigits[(b[(i + 1) \div 2] \div 16) + 1]
        ELSE HexDigits[(b[i \div 2] % 16) + 1]]

\* display_screenshot, lines 1029-1045: its image_bytes, b'' when the conversion
\* raises
DisplayScreenshot(hex_data) ==
    IF FromHexRaises(hex_data) THEN <<>> ELSE FromHex(hex_data)

\* int(), lines 1800-1801: the text is an integer literal
IsInt(f) ==
    LET t == Strip(f)
        u == IF t # <<>> /\ t[1] \in {"+", "-"} THEN Tail(t) ELSE t
    IN  u # <<>> /\ AllIn(u, Digits)

\* float(), line 1801: the text is a decimal literal
IsFloat(f) ==
    LET t == Strip(f)
        u == IF t # <<>> /\ t[1] \in {"+", "-"} THEN Tail(t) ELSE t
        dots == {i \in 1..Len(u) : u[i] = "."}
    IN  /\ \E i \in 1..Len(u) : u[i] \in Digits
        /\ AllIn(u, Digits \cup {"."})
        /\ Cardinality(dots) <= 1

\* process_serial_queue, lines 1800-1801: every conversion succeeds
TelemetryParses(params) ==
    /\ \A i \in {1, 2, 3, 4, 9, 10, 11, 12} : IsInt(params[i])
    /\ IsFloat(params[14])

\* process_serial_queue, lines 1794-1830: the fields shown once data_line is handled
ShowTelemetry(data_line) ==
    LET params == SplitComma(data_line)
    IN  IF DATA_LOG_PATTERN(data_line) /\ Len(params) >= 15 /\ TelemetryParses(params)
        THEN params
        ELSE telemetry

\* faulty variant: the item put last is taken
get_nowaitNewest(queue) == queue[Len(queue)]

\* queue.Queue.get_nowait, line 1737: the item put first is taken
get_nowait(queue) == queue[1]

\* process_serial_queue, lines 1737-1830: one pass of its loop at position at, going
\* on at position back. A serial_error_disconnect item goes to
\* handle_forced_disconnect, which calls RadioController.disconnect when the
\* application is connected. What the pass shows is followed where ui holds.
TakeItem(at, back) ==
    LET item == get_nowait(data_queue)
    IN  /\ cpc = at /\ data_queue # <<>>
        /\ data_queue' = Tail(data_queue)
        /\ TkFrame("process_serial_queue", <<>>)
        /\ IF item.type = "serial_error_disconnect" /\ connected
           THEN running' = FALSE /\ cpc' = "disc_close" /\ CompleteOnDisconnect
           ELSE running' = running /\ cpc' = back /\ UNCHANGED scan
        /\ IF ~ui THEN UNCHANGED shown
           ELSE /\ queue_item' = item
                /\ telemetry' = IF item.type = "line" THEN ShowTelemetry(item.data)
                                ELSE telemetry
                /\ image_bytes' = IF item.type = "screenshot_data"
                                  THEN DisplayScreenshot(item.data)
                                  ELSE image_bytes
        /\ UNCHANGED <<ser_open, ssVars, memVars, themeVars,
                       log_is_on_before_special_op, line_assembly_buffer_bytes,
                       connected, devSlot, ghost>>

\* RadioApp.process_serial_queue takes one item
ProcessSerialQueue ==
    /\ TakeItem("idle", "idle")
    /\ UNCHANGED scheduled

\* faulty variant: the next poll is scheduled only by a poll that took an item
RescheduleAfterWork(took) == took

\* process_serial_queue, lines 1833-1834: the finally clause schedules the next
\* poll, whatever the poll did (took: it took an item), while the window exists
RescheduleAfter(took) == TRUE

\* process_serial_queue is entered: the pending after() call fires
PollBegin ==
    /\ cpc = "idle" /\ scheduled
    /\ cpc' = "poll_first" /\ scheduled' = FALSE
    /\ TkFrame("poll_begin", <<>>)
    /\ UNCHANGED <<ctl, connected, devSlot, ghost, shown, scan>>

\* process_serial_queue, line 1736: the while condition; when it fails the poll
\* ends through the finally clause
PollTest ==
    /\ cpc \in {"poll_first", "poll_again"}
    /\ IF data_queue # <<>>
       THEN /\ cpc' = IF cpc = "poll_first" THEN "poll_get_first" ELSE "poll_get"
            /\ UNCHANGED scheduled
       ELSE /\ cpc' = "idle"
            /\ scheduled' = RescheduleAfter(cpc = "poll_again")
    /\ TkFrame("poll_test", <<>>)
    /\ UNCHANGED <<ctl, connected, devSlot, ghost, shown, scan>>

\* process_serial_queue, line 1737: get_nowait() and the pass for the item it took;
\* on an empty queue get_nowait() raises queue.Empty, which line 1832 catches, and
\* the poll ends through the finally clause
PollGet ==
    /\ cpc \in {"poll_get_first", "poll_get"}
    /\ IF data_queue # <<>>
       THEN /\ TakeItem(cpc, "poll_again")
            /\ UNCHANGED scheduled
       ELSE /\ cpc' = "idle"
            /\ scheduled' = RescheduleAfter(cpc = "poll_get")
            /\ TkFrame("process_serial_queue", <<>>)
            /\ UNCHANGED <<ctl, connected, devSlot, ghost, shown, scan>>

\* the port stops working: the device is unplugged
LinkDown ==
    /\ link /\ ser_open
    /\ link' = FALSE
    /\ act' = "link_down" /\ wrote' = <<>> /\ rx' = NoRx /\ fin' = NoFin
    /\ UNCHANGED <<ctl, connected, now, cpc, rpc, rafter, devSlot, ghost, watch,
                   audited, g_readerErrors, audit,
                   shown, scheduled, ui, traced, trace, rpc0, scan>>

\* the clock
Tick(d, limit) ==
    /\ now + d <= limit
    /\ now' = now + d
    /\ act' = "tick" /\ wrote' = <<>> /\ rx' = NoRx /\ fin' = NoFin
    /\ UNCHANGED <<ctl, connected, cpc, rpc, rafter, devSlot, ghost, watch,
                   link, audited, g_readerErrors, audit,
                   shown, scheduled, ui, traced, trace, rpc0, scan>>


(* ---------------------------------------------------------------------- *)
(* Capture state machine and reader loop (reader thread)                   *)
(* ---------------------------------------------------------------------- *)

\* the branch of read_serial's if/elif chain a line takes
Mode ==
    IF expecting_screenshot_data THEN "CapturingImage"
    ELSE IF expecting_memory_slots THEN "CapturingMemory"
    ELSE IF expecting_theme_string THEN "CapturingTheme"
    ELSE "Idle"

SuccessKey(operation_type) ==
    CASE operation_type = "Screenshot" -> "screenshot_data"
      [] operation_type = "Memory" -> "memory_slots_data"
      [] operation_type = "ThemeGet" -> "theme_data"

ErrorKey(operation_type) ==
    CASE operation_type = "Screenshot" -> "screenshot_error"
      [] operation_type = "Memory" -> "memory_slots_error"
      [] operation_type = "ThemeGet" -> "theme_data_error"

NoDataMessage(operation_type) ==
    CASE operation_type = "Screenshot" -> Msg("No screenshot data received.")
      [] operation_type = "Memory" -> Msg("No memory slot data received.")
      [] operation_type = "ThemeGet" -> Msg("No theme string received or timeout.")

\* faulty variant: the success event whatever the buffer holds
FinalizeEventAlwaysSuccess(operation_type, buffer) ==
    Ev(SuccessKey(operation_type), buffer)

\* _finalize_special_op: the event it puts for a buffer
FinalizeEvent(operation_type, buffer) ==
    IF buffer # <<>>
    THEN Ev(SuccessKey(operation_type), buffer)
    ELSE Ev(ErrorKey(operation_type), NoDataMessage(operation_type))

\* read_serial, lines 207-210
ScreenshotTimedOut ==
    /\ expecting_screenshot_data
    /\ screenshot_hex_buffer # <<>>
    /\ last_screenshot_hex_byte_time > 0
    /\ now - last_screenshot_hex_byte_time > SCREENSHOT_DATA_INACTIVITY_TIMEOUT

\* faulty variant: the memory timer compared with the screenshot window
MemoryTimedOutWrongWindow ==
    /\ expecting_memory_slots
    /\ memory_slots_buffer # <<>>
    /\ last_memory_slot_time > 0
    /\ now - last_memory_slot_time > SCREENSHOT_DATA_INACTIVITY_TIMEOUT

\* read_serial, lines 212-214
MemoryTimedOut ==
    /\ expecting_memory_slots
    /\ memory_slots_buffer # <<>>
    /\ last_memory_slot_time > 0
    /\ now - last_memory_slot_time > MEMORY_DATA_INACTIVITY_TIMEOUT

\* read_serial, lines 216-217
ThemeTimedOut ==
    /\ expecting_theme_string
    /\ last_theme_data_time > 0
    /\ now - last_theme_data_time > THEME_DATA_INACTIVITY_TIMEOUT

\* What handling one read does before any finalization: the buffers and timestamps,
\* the items put before (pre) and after (post) _finalize_special_op(op)
Keep ==
    [ss_buf |-> screenshot_hex_buffer, ss_time |-> last_screenshot_hex_byte_time,
     mem_buf |-> memory_slots_buffer, mem_time |-> last_memory_slot_time,
     th_buf |-> theme_string_buffer, th_time |-> last_theme_data_time,
     pre |-> <<>>, op |-> "none", post |-> <<>>]

\* faulty variant: the timers are evaluated whatever the tail holds
OnNoDataIgnoresTail ==
    IF ScreenshotTimedOut THEN [Keep EXCEPT !.op = "Screenshot"]
    ELSE IF MemoryTimedOut THEN [Keep EXCEPT !.op = "Memory"]
    ELSE IF ThemeTimedOut THEN [Keep EXCEPT !.op = "ThemeGet"]
    ELSE Keep

\* read_serial, lines 206-219: a read that returned nothing
OnNoData ==
    IF line_assembly_buffer_bytes # <<>> THEN Keep
    ELSE IF ScreenshotTimedOut THEN [Keep EXCEPT !.op = "Screenshot"]
    ELSE IF MemoryTimedOut THEN [Keep EXCEPT !.op = "Memory"]
    ELSE IF ThemeTimedOut THEN [Keep EXCEPT !.op = "ThemeGet"]
    ELSE Keep

\* read_serial, lines 226-253: the line is not ASCII
OnUndecodable(complete_line_bytes) ==
    IF expecting_screenshot_data
    THEN [Keep EXCEPT !.pre = <<Ev("screenshot_error",
                                  IF screenshot_hex_buffer # <<>>
                                  THEN Msg("Unicode corruption after receiving some data for Screenshot.")
                                  ELSE Msg("UnicodeDecodeError at start of Screenshot data."))>>,
                      !.ss_buf = <<>>, !.op = "Screenshot"]
    ELSE IF expecting_memory_slots
    THEN [Keep EXCEPT !.pre = <<Ev("memory_slots_error",
                                  IF memory_slots_buffer # <<>>
                                  THEN Msg("Unicode corruption after receiving some data for Memory.")
                                  ELSE Msg("UnicodeDecodeError at start of Memory data."))>>,
                      !.mem_buf = <<>>, !.op = "Memory"]
    ELSE IF expecting_theme_string
    THEN [Keep EXCEPT !.pre = <<Ev("theme_data_error",
                                  IF theme_string_buffer # <<>>
                                  THEN Msg("Unicode corruption after receiving some data for ThemeGet.")
                                  ELSE Msg("UnicodeDecodeError at start of ThemeGet data."))>>,
                      !.th_buf = <<>>, !.op = "ThemeGet"]
    ELSE IF Utf8Decodable(complete_line_bytes) /\ Strip(Utf8Decode(complete_line_bytes)) # <<>>
    THEN [Keep EXCEPT !.pre = <<Ev("line", Strip(Utf8Decode(complete_line_bytes)))>>]
    ELSE Keep

\* read_serial, lines 255-259: the line is empty
OnEmptyLine ==
    IF expecting_screenshot_data /\ screenshot_hex_buffer # <<>> THEN [Keep EXCEPT !.ss_time = now]
    ELSE IF expecting_memory_slots /\ memory_slots_buffer # <<>> THEN [Keep EXCEPT !.mem_time = now]
    ELSE IF expecting_theme_string THEN [Keep EXCEPT !.th_time = now]
    ELSE Keep

ErrorExpectedNewline ==
    <<"E", "r", "r", "o", "r", ":", " ", "E", "x", "p", "e", "c", "t", "e", "d", " ",
      "n", "e", "w", "l", "i", "n", "e">>

\* "ERROR: EXPECTED NEWLINE", line 269
ERROR_EXPECTED_NEWLINE ==
    <<"E", "R", "R", "O", "R", ":", " ", "E", "X", "P", "E", "C", "T", "E", "D", " ",
      "N", "E", "W", "L", "I", "N", "E">>

\* read_serial, lines 268-270
IsSimpleIgnorable(line_str) ==
    \/ Upper(Strip(line_str)) = <<"O", "K">>
    \/ Contains(ERROR_EXPECTED_NEWLINE, Upper(line_str))
    \/ Upper(Strip(line_str)) = Upper(<<CMD_SCREENSHOT>>)

\* read_serial, line 282
IsSimpleResp(line_str) ==
    \/ Upper(Strip(line_str)) = <<"O", "K">>
    \/ Contains(ErrorExpectedNewline, line_str)

\* faulty variant: a hex line replaces the buffer instead of extending it
OnImageLineOverwrite(line_str) ==
    IF _is_hex_string(line_str)
    THEN [Keep EXCEPT !.ss_buf = line_str, !.ss_time = now]
    ELSE IF IsSimpleIgnorable(line_str) THEN [Keep EXCEPT !.ss_time = now]
    ELSE IF DATA_LOG_PATTERN(line_str)
    THEN [Keep EXCEPT !.ss_time = now, !.pre = <<Ev("line", line_str)>>]
    ELSE [Keep EXCEPT !.ss_time = now]

\* faulty variant: a line that is no hex closes an image capture that has timed out
OnImageLineTimesOut(line_str) ==
    IF _is_hex_string(line_str)
    THEN [Keep EXCEPT !.ss_buf = screenshot_hex_buffer \o line_str, !.ss_time = now]
    ELSE IF ScreenshotTimedOut THEN [Keep EXCEPT !.op = "Screenshot"]
    ELSE IF IsSimpleIgnorable(line_str) THEN [Keep EXCEPT !.ss_time = now]
    ELSE IF DATA_LOG_PATTERN(line_str)
    THEN [Keep EXCEPT !.ss_time = now, !.pre = <<Ev("line", line_str)>>]
    ELSE [Keep EXCEPT !.ss_time = now]

\* read_serial, lines 261-277: a line while expecting_screenshot_data
OnImageLine(line_str) ==
    IF _is_hex_string(line_str)
    THEN [Keep EXCEPT !.ss_buf = screenshot_hex_buffer \o line_str, !.ss_time = now]
    ELSE IF IsSimpleIgnorable(line_str) THEN [Keep EXCEPT !.ss_time = now]
    ELSE IF DATA_LOG_PATTERN(line_str)
    THEN [Keep EXCEPT !.ss_time = now, !.pre = <<Ev("line", line_str)>>]
    ELSE [Keep EXCEPT !.ss_time = now]

\* faulty variant: the dump is never full
MemoryFullNever(buffer) == FALSE

\* faulty variant: the dump is full only above 32 entries
MemoryFullOffByOne(buffer) == Len(buffer) > MEMORY_SLOTS_FULL

\* read_serial, line 286
MemoryFull(buffer) == Len(buffer) >= MEMORY_SLOTS_FULL

\* read_serial, lines 279-294: a line while expecting_memory_slots
OnMemoryLine(line_str) ==
    IF _is_memory_slot_line(line_str)
    THEN [Keep EXCEPT !.mem_buf = Append(memory_slots_buffer, line_str), !.mem_time = now,
                      !.op = IF MemoryFull(Append(memory_slots_buffer, line_str))
                             THEN "Memory" ELSE "none"]
    ELSE IF memory_slots_buffer # <<>>
    THEN IF DATA_LOG_PATTERN(line_str) \/ ~IsSimpleResp(line_str)
         THEN [Keep EXCEPT !.op = "Memory",
                           !.post = IF DATA_LOG_PATTERN(line_str)
                                    THEN <<Ev("line", line_str)>> ELSE <<>>]
         ELSE [Keep EXCEPT !.mem_time = now]
    ELSE IF DATA_LOG_PATTERN(line_str) THEN [Keep EXCEPT !.pre = <<Ev("line", line_str)>>]
    ELSE Keep

\* faulty variant: a line that does not match leaves the timestamp alone
OnThemeLineNoRefresh(line_str) ==
    IF THEME_STRING_LINE_PATTERN(line_str)
    THEN [Keep EXCEPT !.th_buf = ThemeGroup1(line_str), !.op = "ThemeGet"]
    ELSE Keep

\* faulty variant: the whole line is kept, not the color tokens of its group 1
OnThemeLineKeepsLine(line_str) ==
    IF THEME_STRING_LINE_PATTERN(line_str)
    THEN [Keep EXCEPT !.th_buf = line_str, !.op = "ThemeGet"]
    ELSE [Keep EXCEPT !.th_time = now]

\* read_serial, lines 296-303: a line while expecting_theme_string
OnThemeLine(line_str) ==
    IF THEME_STRING_LINE_PATTERN(line_str)
    THEN [Keep EXCEPT !.th_buf = ThemeGroup1(line_str), !.op = "ThemeGet"]
    ELSE [Keep EXCEPT !.th_time = now]

\* read_serial, lines 305-306: a line while no capture is open
OnIdleLine(line_str) ==
    IF DATA_LOG_PATTERN(line_str) THEN [Keep EXCEPT !.pre = <<Ev("line", line_str)>>]
    ELSE Keep

\* read_serial, lines 222-306: one complete line
OnLine(complete_line_bytes) ==
    IF ~AsciiDecodable(complete_line_bytes) THEN OnUndecodable(complete_line_bytes)
    ELSE LET line_str == Strip(complete_line_bytes)
         IN  IF line_str = <<>> THEN OnEmptyLine
             ELSE IF expecting_screenshot_data THEN OnImageLine(line_str)
             ELSE IF expecting_memory_slots THEN OnMemoryLine(line_str)
             ELSE IF expecting_theme_string THEN OnThemeLine(line_str)
             ELSE OnIdleLine(line_str)


\* the record of what was received, after a read: complete is TRUE when a whole
\* line was handled
RxGhost(complete, line_bytes) ==
    LET text == IF AsciiDecodable(line_bytes) THEN Strip(line_bytes) ELSE <<>>
        isHex == AsciiDecodable(line_bytes) /\ text # <<>> /\ AllIn(text, HexChars)
        isSlot == AsciiDecodable(line_bytes) /\ MEMORY_SLOT_PATTERN(text)
    IN  /\ IF ~watch THEN UNCHANGED <<g_hex, g_hexOnly, g_mem, g_memOnly, g_lastRx>>
           ELSE /\ g_lastRx' = now
                /\ IF ~expecting_screenshot_data' THEN g_hex' = <<>> /\ g_hexOnly' = FALSE
                   ELSE IF ~complete THEN UNCHANGED <<g_hex, g_hexOnly>>
                   ELSE IF isHex THEN g_hex' = g_hex \o text /\ UNCHANGED g_hexOnly
                   ELSE g_hexOnly' = FALSE /\ UNCHANGED g_hex
                /\ IF ~expecting_memory_slots' THEN g_mem' = <<>> /\ g_memOnly' = FALSE
                   ELSE IF ~complete THEN UNCHANGED <<g_mem, g_memOnly>>
                   ELSE IF isSlot /\ Mode = "CapturingMemory"
                        THEN g_mem' = Append(g_mem, text) /\ UNCHANGED g_memOnly
                   ELSE g_memOnly' = FALSE /\ UNCHANGED g_mem
        /\ UNCHANGED g_themeOutstanding

\* the record of what was received, after a step of the reader that read nothing
QuietGhost ==
    /\ IF ~expecting_screenshot_data' THEN g_hex' = <<>> /\ g_hexOnly' = FALSE
       ELSE UNCHANGED <<g_hex, g_hexOnly>>
    /\ IF ~expecting_memory_slots' THEN g_mem' = <<>> /\ g_memOnly' = FALSE
       ELSE UNCHANGED <<g_mem, g_memOnly>>
    /\ UNCHANGED g_lastRx

\* _finalize_special_op, line 196: the log is toggled back
RestoreNeeded == log_is_on_before_special_op

\* faulty variant: finalizing a theme fetch writes nothing
ThemeFinalizeWritesNothing == <<>>

\* _finalize_special_op("ThemeGet"), line 186: what reaches the port
ThemeFinalizeWrites == _send_raw_command(CMD_THEME_EDITOR_TOGGLE)

\* the serial_error_disconnect events among items
Errors(items) ==
    Cardinality({i \in 1..Len(items) : items[i].type = "serial_error_disconnect"})

\* read_serial's exception handlers put their event last, then set running and break
Dying(post) == Errors(post) > 0

\* faulty variant: the handlers do not break out of the loop
ReaderAfterErrorLoops == "loop"

\* read_serial, lines 308 and 315: break
ReaderAfterError == "stopped"

\* Where the reader goes once a read is handled: out of the loop after an error,
\* else to the while condition of line 201 and into ser.readline()
ReaderNext(post) ==
    IF Dying(post) THEN ReaderAfterError
    ELSE IF running /\ ser_open THEN "loop"
    ELSE "stopped"

\* the reader has handled a read and put post
Returned(post) ==
    /\ rpc' = ReaderNext(post)
    /\ running' = (running /\ ~Dying(post))
    /\ rafter' = <<>>

\* The reader applies what handling a read decided, o, and runs
\* _finalize_special_op(o.op) up to its first time.sleep()
Apply(o) ==
    /\ screenshot_hex_buffer' = IF o.op = "Screenshot" THEN <<>> ELSE o.ss_buf
    /\ last_screenshot_hex_byte_time' = IF o.op = "Screenshot" THEN 0 ELSE o.ss_time
    /\ expecting_screenshot_data' = (expecting_screenshot_data /\ o.op # "Screenshot")
    /\ memory_slots_buffer' = IF o.op = "Memory" THEN <<>> ELSE o.mem_buf
    /\ last_memory_slot_time' = IF o.op = "Memory" THEN 0 ELSE o.mem_time
    /\ expecting_memory_slots' = (expecting_memory_slots /\ o.op # "Memory")
    /\ theme_string_buffer' = o.th_buf
    /\ last_theme_data_time' = IF o.op = "ThemeGet" THEN 0 ELSE o.th_time
    /\ expecting_theme_string' = (expecting_theme_string /\ o.op # "ThemeGet")
    /\ CASE o.op = "none" ->
                /\ data_queue' = data_queue \o o.pre \o o.post
                /\ Returned(o.post)
                /\ wrote' = <<>> /\ fin' = NoFin
                /\ g_readerErrors' = g_readerErrors + Errors(o.post)
                /\ Audit("read", <<>>, "none")
         [] o.op = "Screenshot" \/ o.op = "Memory" ->
                LET buffer == IF o.op = "Screenshot" THEN o.ss_buf ELSE o.mem_buf
                    done == data_queue \o o.pre \o <<FinalizeEvent(o.op, buffer)>>
                IN  /\ fin' = [op |-> o.op, buf |-> buffer]
                    /\ wrote' = <<>>
                    /\ Audit("read", <<>>, o.op)
                    /\ IF RestoreNeeded
                       THEN /\ data_queue' = done
                            /\ rpc' = "finalize_log" /\ rafter' = o.post
                            /\ UNCHANGED <<running, g_readerErrors>>
                       ELSE /\ data_queue' = done \o o.post
                            /\ Returned(o.post)
                            /\ g_readerErrors' = g_readerErrors + Errors(o.post)
         [] o.op = "ThemeGet" ->
                /\ data_queue' = data_queue \o o.pre
                /\ wrote' = ThemeFinalizeWrites
                /\ Audit("read", ThemeFinalizeWrites, "none")
                /\ rpc' = "finalize_theme" /\ rafter' = o.post /\ fin' = NoFin
                /\ UNCHANGED <<running, g_readerErrors>>
    /\ UNCHANGED <<ser_open, theme_get_sequence_active,
                   log_is_on_before_special_op, connected, now, cpc, watch, link, audit,
                   shown, scheduled, ui, trace, rpc0, scan>>

\* the reader is in ser.readline() on a port that works: the while condition of
\* line 201 held when it was last tested
ReaderRuns == rpc = "loop" /\ ser_open /\ link
QueueRoom(n) == Len(data_queue) + n <= MaxQueue

\* read_serial: ser.readline() returns nothing within its timeout
ReadNothing ==
    /\ ReaderRuns /\ QueueRoom(2)
    /\ Apply(OnNoData)
    /\ act' = "read_nothing" /\ rx' = [kind |-> "nothing", text |-> <<>>]
    /\ QuietGhost
    /\ UNCHANGED <<line_assembly_buffer_bytes, devSlot, g_themeOutstanding, traced>>

\* faulty variant: the bytes read replace the tail kept from the reads before
AssembleDropsTail(tail, new_bytes) == new_bytes

\* read_serial, line 205: the bytes read are appended to the tail kept
Assemble(tail, new_bytes) == tail \o new_bytes

\* the record of what was read, after a read of new_bytes that completed lines
Traced(new_bytes, lines) ==
    IF ~trace THEN UNCHANGED traced
    ELSE /\ g_stream' = g_stream \o new_bytes
         /\ g_lines' = g_lines \o lines

\* read_serial: ser.readline() returns new_bytes, which hold at most one newline, at
\* their end
Receive(new_bytes) ==
    LET buffer == Assemble(line_assembly_buffer_bytes, new_bytes)
    IN  /\ ReaderRuns /\ QueueRoom(2)
        /\ IF HasNewline(buffer)
           THEN /\ Apply(OnLine(LineBefore(buffer)))
                /\ line_assembly_buffer_bytes' = RestAfter(buffer)
                /\ rx' = [kind |-> "line", text |-> LineBefore(buffer)]
                /\ RxGhost(TRUE, LineBefore(buffer))
                /\ Traced(new_bytes, <<LineBefore(buffer)>>)
           ELSE /\ Apply(Keep)
                /\ line_assembly_buffer_bytes' = buffer
                /\ rx' = [kind |-> "piece", text |-> new_bytes]
                /\ RxGhost(FALSE, <<>>)
                /\ Traced(new_bytes, <<>>)
        /\ act' = "receive"

\* the device sends a chunk
ReadChunk(new_bytes) ==
    /\ Receive(new_bytes)
    /\ UNCHANGED devSlot

\* the device sends the next memory-slot line of a dump of at most limit lines
ReadSlotLine(limit) ==
    /\ devSlot >= 1 /\ devSlot <= limit
    /\ Receive(SlotLine(devSlot) \o <<CR, NL>>)
    /\ devSlot' = devSlot + 1

\* the device sends hex, at most MaxHexLen characters of it for one image
ReadHex(new_bytes) ==
    /\ Len(screenshot_hex_buffer) + HexCount(line_assembly_buffer_bytes)
          + HexCount(new_bytes) <= MaxHexLen
    /\ Receive(new_bytes)
    /\ UNCHANGED devSlot

\* the capture the exception handler of lines 309-314 finalizes
OpenOperation ==
    IF expecting_screenshot_data THEN "Screenshot"
    ELSE IF expecting_memory_slots THEN "Memory"
    ELSE IF expecting_theme_string THEN "ThemeGet"
    ELSE "none"

\* read_serial, lines 308-315: ser.readline() raises, a SerialException or (other)
\* another exception; on a port that disconnect() closed under the read the build
\* decides whether it raises at all
ReadError(other) ==
    /\ rpc = "loop" /\ (~link \/ ~ser_open)
    /\ g_readerErrors < MaxErrors
    /\ QueueRoom(2)
    /\ IF other
       THEN Apply([Keep EXCEPT !.op = OpenOperation,
                               !.post = <<Ev("serial_error_disconnect", Msg("Read loop error"))>>])
       ELSE /\ data_queue' = Append(data_queue,
                                    Ev("serial_error_disconnect", Msg("Serial read error")))
            /\ running' = FALSE
            /\ rpc' = ReaderAfterError
            /\ g_readerErrors' = g_readerErrors + 1
            /\ wrote' = <<>> /\ fin' = NoFin
            /\ UNCHANGED <<ser_open, ssVars, memVars, themeVars,
                           log_is_on_before_special_op, connected, now, cpc, rafter,
                           watch, link, audited, audit,
                           shown, scheduled, ui, trace, rpc0, scan>>
    /\ act' = "read_error" /\ rx' = [kind |-> "error", text |-> <<>>]
    /\ QuietGhost
    /\ UNCHANGED <<line_assembly_buffer_bytes, devSlot, g_themeOutstanding, traced>>

\* faulty variant: the theme buffer is left as it is
FinalizeThemeKeepsBuffer ==
    /\ rpc = "finalize_theme" /\ QueueRoom(1 + Len(rafter))
    /\ theme_get_sequence_active' = FALSE
    /\ theme_string_buffer' = theme_string_buffer
    /\ fin' = [op |-> "ThemeGet", buf |-> theme_string_buffer]
    /\ IF RestoreNeeded
       THEN /\ data_queue' = Append(data_queue, FinalizeEvent("ThemeGet", theme_string_buffer))
            /\ rpc' = "finalize_log"
            /\ UNCHANGED <<running, rafter, g_readerErrors>>
       ELSE /\ data_queue' = Append(data_queue, FinalizeEvent("ThemeGet", theme_string_buffer))
                                \o rafter
            /\ Returned(rafter)
            /\ g_readerErrors' = g_readerErrors + Errors(rafter)
    /\ act' = "finalize_theme" /\ wrote' = <<>> /\ rx' = NoRx
    /\ Audit("finalize_theme", <<>>, "ThemeGet")
    /\ g_themeOutstanding' = FALSE
    /\ UNCHANGED <<ser_open, ssVars, memVars, expecting_theme_string,
                   last_theme_data_time, log_is_on_before_special_op,
                   line_assembly_buffer_bytes, connected, now, cpc, devSlot,
                   g_hex, g_hexOnly, g_mem, g_memOnly, g_lastRx, watch, link, audit,
                   shown, scheduled, ui, traced, trace, rpc0, scan>>

\* _finalize_special_op("ThemeGet") after its time.sleep(0.05), lines 188-196, and
\* what read_serial puts once it has returned
FinalizeTheme ==
    /\ rpc = "finalize_theme" /\ QueueRoom(1 + Len(rafter))
    /\ theme_get_sequence_active' = FALSE
    /\ theme_string_buffer' = <<>>
    /\ fin' = [op |-> "ThemeGet", buf |-> theme_string_buffer]
    /\ IF RestoreNeeded
       THEN /\ data_queue' = Append(data_queue, FinalizeEvent("ThemeGet", theme_string_buffer))
            /\ rpc' = "finalize_log"
            /\ UNCHANGED <<running, rafter, g_readerErrors>>
       ELSE /\ data_queue' = Append(data_queue, FinalizeEvent("ThemeGet", theme_string_buffer))
                                \o rafter
            /\ Returned(rafter)
            /\ g_readerErrors' = g_readerErrors + Errors(rafter)
    /\ act' = "finalize_theme" /\ wrote' = <<>> /\ rx' = NoRx
    /\ Audit("finalize_theme", <<>>, "ThemeGet")
    /\ g_themeOutstanding' = FALSE
    /\ UNCHANGED <<ser_open, ssVars, memVars, expecting_theme_string,
                   last_theme_data_time, log_is_on_before_special_op,
                   line_assembly_buffer_bytes, connected, now, cpc, devSlot,
                   g_hex, g_hexOnly, g_mem, g_memOnly, g_lastRx, watch, link, audit,
                   shown, scheduled, ui, traced, trace, rpc0, scan>>

\* _finalize_special_op after its time.sleep(0.1), line 197, and what read_serial
\* puts once it has returned
FinalizeLog ==
    /\ rpc = "finalize_log" /\ QueueRoom(Len(rafter))
    /\ wrote' = _send_raw_command(CMD_TOGGLE_LOG)
    /\ data_queue' = data_queue \o rafter
    /\ Returned(rafter)
    /\ g_readerErrors' = g_readerErrors + Errors(rafter)
    /\ act' = "finalize_log" /\ rx' = NoRx /\ fin' = NoFin
    /\ Audit("finalize_log", _send_raw_command(CMD_TOGGLE_LOG), "none")
    /\ UNCHANGED <<ser_open, ssVars, memVars, themeVars,
                   log_is_on_before_special_op, line_assembly_buffer_bytes,
                   connected, now, cpc, devSlot, ghost, watch, link, audit,
                   shown, scheduled, ui, traced, trace, rpc0, scan>>

\* read_serial: the while condition fails and the thread ends
ReaderExit ==
    /\ rpc = "loop" /\ ~(running /\ ser_open)
    /\ rpc' = "stopped"
    /\ act' = "reader_exit" /\ wrote' = <<>> /\ rx' = NoRx /\ fin' = NoFin
    /\ UNCHANGED <<ctl, connected, now, cpc, rafter, devSlot, ghost, watch,
                   link, audited, g_readerErrors, audit,
                   shown, scheduled, ui, traced, trace, rpc0, scan>>

(* ---------------------------------------------------------------------- *)
(* Specifications                                                          *)
(* ---------------------------------------------------------------------- *)
Next ==
    \/ Connect
    \/ Disconnect
    \/ DisconnectClose
    \/ RequestScreenshot
    \/ SendScreenshot
    \/ RefreshMemory
    \/ SendShowMem
    \/ RequestRadioTheme
    \/ ThemeEditorToggle
    \/ ThemeGet
    \/ SendRadioCommand
    \/ ProcessSerialQueue
    \/ ReadNothing
    \/ FinalizeTheme
    \/ FinalizeLog
    \/ ReaderExit
    \/ \E c \in Chunks : ReadChunk(c)
    \/ \E c \in HexChunks : ReadHex(c)
    \/ ReadSlotLine(ShortBurst)
    \/ Tick(101, MaxTime)

Spec == Init /\ [][Next]_vars

\* image captures only, with the clock in steps around the 10 s window
NextImage ==
    \/ Connect
    \/ Disconnect
    \/ DisconnectClose
    \/ RequestScreenshot
    \/ SendScreenshot
    \/ ProcessSerialQueue
    \/ ReadNothing
    \/ FinalizeLog
    \/ ReaderExit
    \/ \E c \in ImageChunks : ReadChunk(c)
    \/ \E c \in ImageHexChunks : ReadHex(c)
    \/ \E d \in {50, 101} : Tick(d, ImageHorizon)

SpecImage == InitWatch /\ [][NextImage]_vars

\* one connection with memory captures only, with whole dumps and the clock in steps
\* around the 1.2 s window
NextMem ==
    \/ Connect
    \/ RefreshMemory
    \/ SendShowMem
    \/ ProcessSerialQueue
    \/ ReadNothing
    \/ FinalizeLog
    \/ \E c \in MemChunks : ReadChunk(c)
    \/ ReadSlotLine(LongBurst)
    \/ \E d \in {6, 13} : Tick(d, MemHorizon)

SpecMem == InitWatch /\ [][NextMem]_vars



\* the three captures with the record of what was written kept
LogChunks == {ThemeLine \o <<CR, NL>>, BadLine \o <<NL>>}

NextLog ==
    \/ Connect
    \/ Disconnect
    \/ DisconnectClose
    \/ RequestScreenshot
    \/ SendScreenshot
    \/ RefreshMemory
    \/ SendShowMem
    \/ RequestRadioTheme
    \/ ThemeEditorToggle
    \/ ThemeGet
    \/ ProcessSerialQueue
    \/ ReadNothing
    \/ FinalizeTheme
    \/ FinalizeLog
    \/ ReaderExit
    \/ \E c \in LogChunks : ReadChunk(c)
    \/ \E c \in HexChunks : ReadHex(c)
    \/ ReadSlotLine(ShortBurst)
    \/ Tick(101, MaxTime)

SpecLog == InitAudit /\ [][NextLog]_vars

\* the port is replugged once the application has let go of it
LinkUp ==
    /\ ~link /\ ~ser_open /\ rpc = "stopped"
    /\ link' = TRUE
    /\ act' = "link_up" /\ wrote' = <<>> /\ rx' = NoRx /\ fin' = NoFin
    /\ UNCHANGED <<ctl, connected, now, cpc, rpc, rafter, devSlot, ghost, watch,
                   audited, g_readerErrors, audit,
                   shown, scheduled, ui, traced, trace, rpc0, scan>>

\* image and theme captures on a port that can fail, with disconnects
NextLink ==
    \/ Connect
    \/ Disconnect
    \/ DisconnectClose
    \/ RequestScreenshot
    \/ SendScreenshot
    \/ RequestRadioTheme
    \/ ThemeEditorToggle
    \/ ThemeGet
    \/ SendRadioCommand
    \/ ProcessSerialQueue
    \/ ReadNothing
    \/ FinalizeTheme
    \/ FinalizeLog
    \/ ReaderExit
    \/ LinkDown
    \/ LinkUp
    \/ \E other \in BOOLEAN : ReadError(other)
    \/ \E c \in LinkChunks : ReadChunk(c)
    \/ \E c \in HexChunks : ReadHex(c)
    \/ Tick(101, MaxTime)

SpecLink == InitAudit /\ [][NextLink]_vars

\* the states _finalize_special_op is called in: every mode closed, open with nothing
\* buffered or open with data, on an open connection, with the log remembered on or off
ScreenshotStates ==
    {<<FALSE, <<>>, 0>>, <<TRUE, <<>>, 1>>, <<TRUE, HexLineA, 1>>}
MemoryStates ==
    {<<FALSE, <<>>, 0>>, <<TRUE, <<>>, 1>>, <<TRUE, <<SlotLine(1)>>, 1>>}
ThemeStates ==
    {<<FALSE, <<>>, 0>>, <<TRUE, <<>>, 1>>, <<TRUE, ThemeGroup1(ThemeLine), 1>>}

InitFinalize ==
    /\ ser_open = TRUE /\ running = TRUE /\ connected = TRUE
    /\ data_queue = <<>>
    /\ \E c \in ScreenshotStates :
          /\ expecting_screenshot_data = c[1] /\ screenshot_hex_buffer = c[2]
          /\ last_screenshot_hex_byte_time = c[3]
    /\ \E c \in MemoryStates :
          /\ expecting_memory_slots = c[1] /\ memory_slots_buffer = c[2]
          /\ last_memory_slot_time = c[3]
    /\ \E c \in ThemeStates :
          /\ expecting_theme_string = c[1] /\ theme_string_buffer = c[2]
          /\ last_theme_data_time = c[3]
    /\ theme_get_sequence_active = expecting_theme_string
    /\ log_is_on_before_special_op \in BOOLEAN
    /\ line_assembly_buffer_bytes = <<>>
    /\ now = 1
    /\ cpc = "idle" /\ rpc = "loop" /\ rafter = <<>>
    /\ devSlot = 0
    /\ act = "init" /\ wrote = <<>> /\ rx = NoRx /\ fin = NoFin
    /\ g_hex = <<>> /\ g_hexOnly = FALSE
    /\ g_mem = <<>> /\ g_memOnly = FALSE
    /\ g_lastRx = 0
    /\ g_themeOutstanding = expecting_theme_string
    /\ link = TRUE
    /\ devLog = FALSE
    /\ g_pre = NoPre /\ g_editorOdd = FALSE /\ g_fetchToggles = 0
    /\ g_stopOpen = FALSE /\ g_connectsOdd = FALSE
    /\ rpc0 = "stopped"
    /\ fm_scan_active = FALSE /\ fm_scan_stop_requested = FALSE
    /\ scan_threads = 0 /\ after_complete = 0 /\ g_scans = 0 /\ g_completes = 0
    /\ g_readerErrors = 0
    /\ queue_item = NoItem /\ telemetry = NoTelemetry /\ image_bytes = <<>>
    /\ scheduled = TRUE
    /\ g_stream = <<>> /\ g_lines = <<>>
    /\ watch = FALSE /\ audit = FALSE /\ ui = FALSE /\ trace = FALSE

CallLabel(operation_type) ==
    CASE operation_type = "Screenshot" -> "finalize_screenshot"
      [] operation_type = "Memory" -> "finalize_memory"
      [] operation_type = "ThemeGet" -> "finalize_theme_get"

\* _finalize_special_op(operation_type) called in the state as it is, up to its
\* first time.sleep(); FinalizeTheme and FinalizeLog are the rest of it
CallFinalize(operation_type) ==
    /\ rpc = "loop" /\ act = "init"
    /\ Apply([Keep EXCEPT !.op = operation_type])
    /\ act' = CallLabel(operation_type) /\ rx' = NoRx
    /\ QuietGhost
    /\ UNCHANGED <<line_assembly_buffer_bytes, devSlot, g_themeOutstanding, traced>>

NextFinalize ==
    \/ \E operation_type \in Operations : CallFinalize(operation_type)
    \/ FinalizeTheme
    \/ FinalizeLog

SpecFinalize == InitFinalize /\ [][NextFinalize]_vars

\* telemetry lines of fifteen fields that convert, of sixteen and of fourteen
Telemetry15 ==
    <<"1", ",", "2", ",", "3", ",", "4", ",", "A", ",", "F", ",", "5", ",", "W", ",",
      "6", ",", "7", ",", "8", ",", "9", ",", "0", ",", "3", ",", "0">>
Telemetry16 == Telemetry15 \o <<",", "0">>
Telemetry14 == SubSeq(Telemetry15, 1, 27)
UiChunks == { Telemetry15 \o <<NL>>, Telemetry16 \o <<NL>>, Telemetry14 \o <<NL>>,
              BadLine \o <<NL>> }
UiHexChunks == { <<"4", "D", NL>>, <<"4", "d", NL>> }

InitUi == InitState /\ watch = FALSE /\ audit = FALSE /\ ui = TRUE /\ trace = FALSE

\* one connection with image captures, the polls of process_serial_queue followed
\* statement by statement and what they show followed
NextUi ==
    \/ Connect
    \/ RequestScreenshot
    \/ SendScreenshot
    \/ PollBegin
    \/ PollTest
    \/ PollGet
    \/ ReadNothing
    \/ FinalizeLog
    \/ \E c \in UiChunks : ReadChunk(c)
    \/ \E c \in UiHexChunks : ReadHex(c)
    \/ Tick(101, MaxTime)

SpecUi == InitUi /\ [][NextUi]_vars

\* what ser.readline() returns: pieces of lines and ends of lines
StreamChunks == { <<"O">>, <<"K", NL>>, <<"O", "K", NL>>, <<"?", CR, NL>>, <<NL>> }

InitStream == InitState /\ watch = FALSE /\ audit = FALSE /\ ui = FALSE /\ trace = TRUE

\* the device sends a chunk, MaxStream bytes at most on one connection
ReadBytes(new_bytes) ==
    /\ Len(g_stream) + Len(new_bytes) <= MaxStream
    /\ ReadChunk(new_bytes)

\* one connection with no capture, with the record of what was read kept
NextStream ==
    \/ Connect
    \/ ReadNothing
    \/ \E c \in StreamChunks : ReadBytes(c)

SpecStream == InitStream /\ [][NextStream]_vars

\* the three captures on a port that can fail, the device sending a line that
\* matches nothing and the OK line
NextEntry ==
    \/ Connect
    \/ Disconnect
    \/ DisconnectClose
    \/ RequestScreenshot
    \/ SendScreenshot
    \/ RefreshMemory
    \/ SendShowMem
    \/ RequestRadioTheme
    \/ ThemeEditorToggle
    \/ ThemeGet
    \/ ProcessSerialQueue
    \/ ReadNothing
    \/ FinalizeTheme
    \/ FinalizeLog
    \/ ReaderExit
    \/ LinkDown
    \/ \E other \in BOOLEAN : ReadError(other)
    \/ \E c \in { BadLine \o <<NL>>, OkLine \o <<NL>> } : ReadChunk(c)
    \/ \E c \in HexChunks : ReadHex(c)
    \/ ReadSlotLine(ShortBurst)
    \/ Tick(101, MaxTime)

SpecEntry == Init /\ [][NextEntry]_vars

(* connect() called again while the reader thread that disconnect() told to  *)
(* stop is still inside the ser.readline() it had entered                     *)

\* connect() before the reader thread of the connection before has ended: it is
\* not joined, and stays where it is while the new thread starts
Reconnect ==
    /\ rpc = "loop" /\ rpc0 = "stopped"
    /\ connect
    /\ rpc0' = "readline_old"

\* what a step of the reader thread of the connection before leaves alone
OldReaderFrame(label) ==
    /\ act' = label /\ wrote' = <<>> /\ rx' = NoRx /\ fin' = NoFin
    /\ UNCHANGED <<ser_open, ssVars, memVars, themeVars, log_is_on_before_special_op,
                   line_assembly_buffer_bytes, connected, now, cpc, rpc, rafter,
                   devSlot, ghost, watch, link, audited, g_readerErrors, audit,
                   shown, scheduled, ui, traced, trace, scan>>

\* read_serial in the thread of the connection before: its ser.readline() returns
\* nothing, no timer of lines 207-218 is due, and the while condition of line 201
\* is tested on the fields as connect() has left them
OldReadReturns ==
    /\ rpc0 \in {"readline_old", "loop"}
    /\ OnNoData.op = "none"
    /\ rpc0' = IF running /\ ser_open THEN "loop" ELSE "stopped"
    /\ OldReaderFrame("old_read_nothing")
    /\ UNCHANGED <<running, data_queue>>

\* read_serial in the thread of the connection before, lines 308-315: its
\* ser.readline() on the handle disconnect() closed raises, with no capture open
OldReadRaises(other) ==
    /\ rpc0 = "readline_old"
    /\ OpenOperation = "none"
    /\ QueueRoom(1)
    /\ data_queue' = Append(data_queue,
                            Ev("serial_error_disconnect",
                               IF other THEN Msg("Read loop error")
                               ELSE Msg("Serial read error")))
    /\ running' = FALSE
    /\ rpc0' = ReaderAfterError
    /\ OldReaderFrame("old_read_error")

\* connections made one after the other, with telemetry
NextReconnect ==
    \/ Connect
    \/ Reconnect
    \/ Disconnect
    \/ DisconnectClose
    \/ SendRadioCommand
    \/ ProcessSerialQueue
    \/ ReadNothing
    \/ ReaderExit
    \/ OldReadReturns
    \/ \E other \in BOOLEAN : OldReadRaises(other)
    \/ \E other \in BOOLEAN : ReadError(other)
    \/ ReadChunk(LogLine \o <<NL>>)

SpecReconnect == Init /\ [][NextReconnect]_vars

(* The controller statement by statement: a memory request, a disconnect and  *)
(* calls made on a closed handle, against _finalize_special_op("Memory")      *)

\* the states the calls are made in: the handle closed, or a memory capture open
\* with data and the reader about to run _finalize_special_op("Memory")
InitRace ==
    /\ \E open \in BOOLEAN, slots \in {1, 2}, on \in BOOLEAN :
          /\ ser_open = open /\ running = open /\ connected = open
          /\ log_is_on_before_special_op = on
          /\ expecting_memory_slots = open
          /\ memory_slots_buffer = IF open THEN [i \in 1..slots |-> SlotLine(i)] ELSE <<>>
          /\ last_memory_slot_time = IF open THEN 1 ELSE 0
          /\ devSlot = IF open THEN slots + 1 ELSE 0
          /\ rpc = IF open THEN "fin_176" ELSE "stopped"
    /\ data_queue = <<>>
    /\ expecting_screenshot_data = FALSE /\ screenshot_hex_buffer = <<>>
    /\ last_screenshot_hex_byte_time = 0
    /\ expecting_theme_string = FALSE /\ theme_string_buffer = <<>>
    /\ last_theme_data_time = 0 /\ theme_get_sequence_active = FALSE
    /\ line_assembly_buffer_bytes = <<>>
    /\ now = 14
    /\ cpc = "idle" /\ rafter = <<>>
    /\ act = "init" /\ wrote = <<>> /\ rx = NoRx /\ fin = NoFin
    /\ g_hex = <<>> /\ g_hexOnly = FALSE
    /\ g_mem = <<>> /\ g_memOnly = FALSE
    /\ g_lastRx = 0
    /\ g_themeOutstanding = FALSE
    /\ link = TRUE
    /\ devLog = FALSE
    /\ g_pre = NoPre /\ g_editorOdd = FALSE /\ g_fetchToggles = 0
    /\ g_stopOpen = FALSE /\ g_connectsOdd = FALSE
    /\ rpc0 = "stopped"
    /\ fm_scan_active = FALSE /\ fm_scan_stop_requested = FALSE
    /\ scan_threads = 0 /\ after_complete = 0 /\ g_scans = 0 /\ g_completes = 0
    /\ g_readerErrors = 0
    /\ queue_item = NoItem /\ telemetry = NoTelemetry /\ image_bytes = <<>>
    /\ scheduled = TRUE
    /\ g_stream = <<>> /\ g_lines = <<>>
    /\ watch = FALSE /\ audit = FALSE /\ ui = FALSE /\ trace = FALSE

\* what a statement of _finalize_special_op and _send_raw_command leaves alone
ReaderFrame(label, written) ==
    /\ act' = label /\ wrote' = written /\ rx' = NoRx
    /\ Audit(label, written, "none")
    /\ UNCHANGED <<ser_open, ssVars, themeVars, log_is_on_before_special_op,
                   line_assembly_buffer_bytes, connected, now, cpc, devSlot, ghost,
                   watch, link, audit, shown, scheduled, ui, traced, trace, rpc0, scan>>

\* _finalize_special_op("Memory"), line 176
FinalizeMemoryFlag ==
    /\ rpc = "fin_176"
    /\ expecting_memory_slots' = FALSE /\ last_memory_slot_time' = 0
    /\ rpc' = "fin_177"
    /\ ReaderFrame("finalize_memory_flag", <<>>)
    /\ UNCHANGED <<memory_slots_buffer, data_queue, running, rafter, fin, g_readerErrors>>

\* _finalize_special_op("Memory"), lines 177-180
FinalizeMemoryPut ==
    /\ rpc = "fin_177" /\ QueueRoom(1)
    /\ data_queue' = Append(data_queue, FinalizeEvent("Memory", memory_slots_buffer))
    /\ fin' = [op |-> "Memory", buf |-> memory_slots_buffer]
    /\ rpc' = "fin_181"
    /\ ReaderFrame("finalize_memory_put", <<>>)
    /\ UNCHANGED <<memVars, running, rafter, g_readerErrors>>

\* _finalize_special_op("Memory"), lines 181 and 196
FinalizeMemoryClear ==
    /\ rpc = "fin_181"
    /\ memory_slots_buffer' = <<>>
    /\ IF RestoreNeeded
       THEN rpc' = "finalize_log" /\ UNCHANGED <<running, rafter>>
       ELSE Returned(<<>>)
    /\ fin' = NoFin
    /\ ReaderFrame("finalize_memory_clear", <<>>)
    /\ UNCHANGED <<expecting_memory_slots, last_memory_slot_time, data_queue,
                   g_readerErrors>>

\* _send_raw_command(CMD_TOGGLE_LOG) after the time.sleep(0.1) of line 197: the
\* test of line 108
RawCheck ==
    /\ rpc = "finalize_log"
    /\ IF ser_open
       THEN rpc' = "raw_write" /\ UNCHANGED <<running, rafter>>
       ELSE Returned(<<>>)
    /\ fin' = NoFin
    /\ ReaderFrame("raw_check", <<>>)
    /\ UNCHANGED <<memVars, data_queue, g_readerErrors>>

\* _send_raw_command(CMD_TOGGLE_LOG), lines 109-112: self.ser.write is called; on a
\* port closed since the test it raises, and the handler prints the error
RawWrite ==
    /\ rpc = "raw_write"
    /\ Returned(<<>>)
    /\ fin' = NoFin
    /\ ReaderFrame("raw_write", _send_raw_command(CMD_TOGGLE_LOG))
    /\ UNCHANGED <<memVars, data_queue, g_readerErrors>>

\* RadioController.send_command(cmd) is called, lines 114-122 and, for a command
\* that opens no capture, line 134
CallSendCommand(cmd) ==
    /\ cpc = "idle"
    /\ IF ~ser_open
       THEN /\ TkStep("send_command", <<>>)
            /\ UNCHANGED <<ctl, connected, cpc, devSlot, ghost>>
       ELSE IF cmd # CMD_SHOW_MEM
       THEN /\ TkStep("send_command", SerWrite(cmd))
            /\ SendOutcome
            /\ log_is_on_before_special_op' =
                  IF link /\ UserToggled(cmd, FALSE) THEN ~log_is_on_before_special_op
                  ELSE log_is_on_before_special_op
            /\ UNCHANGED <<ser_open, running, ssVars, memVars, themeVars,
                           line_assembly_buffer_bytes, connected, cpc, devSlot, ghost>>
       ELSE /\ IF LogPauseNeeded
               THEN /\ TkStep("send_command", _send_raw_command(CMD_TOGGLE_LOG))
                    /\ cpc' = "sc_sleep"
               ELSE /\ TkStep("send_command", <<>>)
                    /\ cpc' = "sc_130"
            /\ UNCHANGED <<ctl, connected, devSlot, ghost>>

\* send_command(CMD_SHOW_MEM): the time.sleep(0.05) of line 122 ends
SendCommandWakes ==
    /\ cpc = "sc_sleep"
    /\ cpc' = "sc_130"
    /\ TkStep("send_command_wakes", <<>>)
    /\ UNCHANGED <<ctl, connected, devSlot, ghost>>

\* send_command(CMD_SHOW_MEM), line 130
ShowMemFlag ==
    /\ cpc = "sc_130"
    /\ expecting_memory_slots' = TRUE
    /\ cpc' = "sc_131"
    /\ TkStep("show_mem_flag", <<>>)
    /\ UNCHANGED <<ser_open, running, data_queue, ssVars, memory_slots_buffer,
                   last_memory_slot_time, themeVars, log_is_on_before_special_op,
                   line_assembly_buffer_bytes, connected, devSlot, ghost>>

\* send_command(CMD_SHOW_MEM), line 131
ShowMemBuffer ==
    /\ cpc = "sc_131"
    /\ memory_slots_buffer' = <<>> /\ last_memory_slot_time' = now
    /\ cpc' = "sc_132"
    /\ TkStep("show_mem_buffer", <<>>)
    /\ UNCHANGED <<ser_open, running, data_queue, ssVars, expecting_memory_slots,
                   themeVars, log_is_on_before_special_op,
                   line_assembly_buffer_bytes, connected, devSlot, ghost>>

\* send_command(CMD_SHOW_MEM), line 132: the request is written, and the device
\* starts its dump
ShowMemWrite ==
    /\ cpc = "sc_132"
    /\ devSlot' = IF link THEN 1 ELSE devSlot
    /\ SendOutcome
    /\ cpc' = "idle"
    /\ TkStep("show_mem_write", SerWrite(CMD_SHOW_MEM))
    /\ UNCHANGED <<ser_open, running, ssVars, memVars, themeVars,
                   log_is_on_before_special_op, line_assembly_buffer_bytes,
                   connected, ghost>>

\* RadioController.request_theme_data() is called
CallRequestThemeData ==
    /\ cpc = "idle"
    /\ request_theme_data

NextRace ==
    \/ \E cmd \in {CMD_SHOW_MEM, CMD_VOLUME_UP} : CallSendCommand(cmd)
    \/ SendCommandWakes
    \/ ShowMemFlag
    \/ ShowMemBuffer
    \/ ShowMemWrite
    \/ CallRequestThemeData
    \/ ThemeEditorToggle
    \/ ThemeGet
    \/ Disconnect
    \/ DisconnectClose
    \/ FinalizeMemoryFlag
    \/ FinalizeMemoryPut
    \/ FinalizeMemoryClear
    \/ RawCheck
    \/ RawWrite
    \/ ReaderExit

SpecRace == InitRace /\ [][NextRace]_vars

(* ---------------------------------------------------------------------- *)
(* Properties                                                              *)
(* ---------------------------------------------------------------------- *)
LastEvent == data_queue[Len(data_queue)]

\* the step handled the complete line rx'.text, and it decodes to TelemetryLine
HandledLine == act' = "receive" /\ rx'.kind = "line"
HandledText == IF AsciiDecodable(rx'.text) THEN Strip(rx'.text) ELSE <<>>
HandledTelemetry == HandledLine /\ HandledText # <<>> /\ DATA_LOG_PATTERN(HandledText)

\* the step was a read that returned nothing with no partial line pending
QuietRead == act' = "read_nothing" /\ line_assembly_buffer_bytes = <<>>

\* the events the step put and the lines it still has to put
Put == SubSeq(data_queue', Len(data_queue) + 1, Len(data_queue')) \o rafter'

\* C1: in every reachable state at most one of expecting_screenshot_data,
\* expecting_memory_slots and expecting_theme_string is true.
C1_AtMostOneCapture ==
    /\ ~(expecting_screenshot_data /\ expecting_memory_slots)
    /\ ~(expecting_screenshot_data /\ expecting_theme_string)
    /\ ~(expecting_memory_slots /\ expecting_theme_string)

\* C2: a telemetry line handled while an image capture is open closes the capture,
\* puts one image result event and puts the telemetry line after it.
C2_TelemetryEndsImage ==
    [][(HandledTelemetry /\ Mode = "CapturingImage")
        => /\ ~expecting_screenshot_data'
           /\ Len(Put) = 2
           /\ Put[1] = FinalizeEvent("Screenshot", screenshot_hex_buffer)
           /\ Put[2] = Ev("line", HandledText)]_vars

\* C3: a telemetry line handled while a memory capture is open, with or without slot
\* lines buffered, closes the capture, puts one memory result event and puts the
\* telemetry line after it.
C3_TelemetryEndsMemory ==
    [][(HandledTelemetry /\ Mode = "CapturingMemory")
        => /\ ~expecting_memory_slots'
           /\ Len(Put) = 2
           /\ Put[1] = FinalizeEvent("Memory", memory_slots_buffer)
           /\ Put[2] = Ev("line", HandledText)]_vars

\* C4: a capture with nothing buffered whose inactivity window has elapsed is closed
\* by the next read that returns nothing, and its no-data error event is put.
C4_EmptyCaptureTimesOut ==
    [][/\ (QuietRead /\ Mode = "CapturingImage" /\ screenshot_hex_buffer = <<>>
             /\ now - last_screenshot_hex_byte_time > SCREENSHOT_DATA_INACTIVITY_TIMEOUT)
          => /\ ~expecting_screenshot_data'
             /\ data_queue' = Append(data_queue,
                    Ev("screenshot_error", Msg("No screenshot data received.")))
       /\ (QuietRead /\ Mode = "CapturingMemory" /\ memory_slots_buffer = <<>>
             /\ now - last_memory_slot_time > MEMORY_DATA_INACTIVITY_TIMEOUT)
          => /\ ~expecting_memory_slots'
             /\ data_queue' = Append(data_queue,
                    Ev("memory_slots_error", Msg("No memory slot data received.")))
       /\ (QuietRead /\ Mode = "CapturingTheme" /\ theme_string_buffer = <<>>
             /\ now - last_theme_data_time > THEME_DATA_INACTIVITY_TIMEOUT)
          => ~expecting_theme_string']_vars

\* C5: after hex-only lines of total length L > 0 in an image capture and more than
\* 10 s without data, the read that returns nothing puts exactly one screenshot_data
\* event, whose payload is the lines in arrival order (length L), and closes the capture.
C5_ImageTimeoutPayload ==
    [][(QuietRead /\ Mode = "CapturingImage" /\ g_hexOnly /\ g_hex # <<>>
          /\ now - g_lastRx > SCREENSHOT_DATA_INACTIVITY_TIMEOUT)
        => /\ data_queue' = Append(data_queue, Ev("screenshot_data", g_hex))
           /\ ~expecting_screenshot_data']_vars

C5_Witness ==
    /\ act = "read_nothing" /\ fin.op = "Screenshot"
    /\ Len(fin.buf) = 4
    /\ data_queue # <<>> /\ LastEvent = Ev("screenshot_data", fin.buf)
    /\ ~expecting_screenshot_data

\* C6: the 32nd slot line of a memory capture that received slot lines only closes the
\* capture in the step that handles it and puts exactly one memory_slots_data event
\* holding the 32 lines in arrival order.
C6_FullDumpFinalizes ==
    [][(HandledLine /\ Mode = "CapturingMemory" /\ g_memOnly /\ Len(g_mem) = 31
          /\ HandledText # <<>> /\ MEMORY_SLOT_PATTERN(HandledText))
        => /\ data_queue' = Append(data_queue,
                                   Ev("memory_slots_data", Append(g_mem, HandledText)))
           /\ ~expecting_memory_slots']_vars

C6_Witness ==
    /\ act = "receive" /\ fin.op = "Memory"
    /\ Len(fin.buf) = 32
    /\ \A i \in 1..32 : fin.buf[i] = SlotLine(i)
    /\ data_queue # <<>> /\ LastEvent = Ev("memory_slots_data", fin.buf)
    /\ ~expecting_memory_slots

\* C7: after 31 slot lines in a memory capture and more than 1.2 s without data, the
\* read that returns nothing closes the capture and puts exactly one
\* memory_slots_data event with those 31 entries.
C7_Timeout31 ==
    [][(QuietRead /\ Mode = "CapturingMemory" /\ g_memOnly /\ Len(g_mem) = 31
          /\ now - g_lastRx > MEMORY_DATA_INACTIVITY_TIMEOUT)
        => /\ data_queue' = Append(data_queue, Ev("memory_slots_data", g_mem))
           /\ ~expecting_memory_slots']_vars

C7_Witness ==
    /\ act = "read_nothing" /\ fin.op = "Memory"
    /\ Len(fin.buf) = 31
    /\ data_queue # <<>> /\ LastEvent = Ev("memory_slots_data", fin.buf)
    /\ ~expecting_memory_slots

SuccessTypes == {"screenshot_data", "memory_slots_data", "theme_data"}

\* the result events of operation_type among the events the step put
ResultsPut(operation_type) ==
    {i \in 1..Len(Put) :
        \/ Put[i].type = SuccessKey(operation_type)
        \/ Put[i] = Ev(ErrorKey(operation_type), NoDataMessage(operation_type))}

C9_SameModeRequestRejected ==
    [][/\ (act' = "request_screenshot" /\ expecting_screenshot_data)
          => (wrote' = <<>> /\ cpc' = "idle" /\ UNCHANGED ssVars)
       /\ (act' = "refresh_memory" /\ expecting_memory_slots)
          => (wrote' = <<>> /\ cpc' = "idle" /\ UNCHANGED memVars)]_vars

\* C10: a theme fetch requested while another is outstanding writes nothing and leaves
\* the theme buffer, timestamp and flags as they are.
C10_ThemeReentryRejected ==
    [][(act' = "request_radio_theme" /\ g_themeOutstanding)
        => (wrote' = <<>> /\ cpc' = "idle" /\ UNCHANGED themeVars)]_vars

C10_Witness ==
    /\ act = "request_radio_theme" /\ g_themeOutstanding
    /\ rpc = "finalize_theme" /\ ~expecting_theme_string /\ theme_get_sequence_active
    /\ wrote = <<>> /\ cpc = "idle"

\* C11: _finalize_special_op called for a mode that is closed with an empty buffer
\* does nothing: it puts no event, writes no command and leaves the state as it is.
C11_FinalizeIdleNoOp ==
    [][/\ (act' = "finalize_screenshot" /\ ~expecting_screenshot_data
             /\ screenshot_hex_buffer = <<>>)
          => (data_queue' = data_queue /\ wrote' = <<>> /\ rpc' = rpc /\ UNCHANGED ssVars)
       /\ (act' = "finalize_memory" /\ ~expecting_memory_slots /\ memory_slots_buffer = <<>>)
          => (data_queue' = data_queue /\ wrote' = <<>> /\ rpc' = rpc /\ UNCHANGED memVars)
       /\ (act' = "finalize_theme_get" /\ ~expecting_theme_string
             /\ theme_string_buffer = <<>>)
          => (data_queue' = data_queue /\ wrote' = <<>> /\ rpc' = rpc
              /\ UNCHANGED themeVars)]_vars

\* C12: each of the three capture requests made while the log is remembered on
\* writes the log toggle in a step of its own before the capture command, and the
\* capture command follows; made while the log is remembered off it writes the
\* capture command (for a theme fetch the editor toggle, then the theme-get) and no
\* log toggle.
C12_LogPausedBeforeRequest ==
    /\ [][/\ (act' = "request_screenshot" /\ ScreenshotRequestAllowed /\ ser_open)
             => IF log_is_on_before_special_op
                THEN wrote' = <<CMD_TOGGLE_LOG>> /\ cpc' = "send_screenshot"
                     /\ UNCHANGED ssVars
                ELSE wrote' = <<CMD_SCREENSHOT>> /\ cpc' = "idle"
          /\ (act' = "refresh_memory" /\ ser_open)
             => IF log_is_on_before_special_op
                THEN wrote' = <<CMD_TOGGLE_LOG>> /\ cpc' = "send_show_mem"
                     /\ UNCHANGED memVars
                ELSE wrote' = <<CMD_SHOW_MEM>> /\ cpc' = "idle"
          /\ (act' = "request_radio_theme" /\ ThemeRequestAllowed /\ ser_open)
             => IF log_is_on_before_special_op
                THEN wrote' = <<CMD_TOGGLE_LOG>> /\ cpc' = "theme_toggle"
                ELSE wrote' = <<CMD_THEME_EDITOR_TOGGLE>> /\ cpc' = "theme_get"]_vars
    /\ [][/\ (cpc' = "send_screenshot" /\ cpc # "send_screenshot")
             => (act' = "request_screenshot" /\ wrote' = <<CMD_TOGGLE_LOG>>)
          /\ act' = "send_screenshot"
             => (cpc = "send_screenshot" /\ wrote' = <<CMD_SCREENSHOT>>)
          /\ (cpc' = "send_show_mem" /\ cpc # "send_show_mem")
             => (act' = "refresh_memory" /\ wrote' = <<CMD_TOGGLE_LOG>>)
          /\ act' = "send_show_mem"
             => (cpc = "send_show_mem" /\ wrote' = <<CMD_SHOW_MEM>>)
          /\ (cpc' = "theme_toggle" /\ cpc # "theme_toggle")
             => (act' = "request_radio_theme" /\ wrote' = <<CMD_TOGGLE_LOG>>)
          /\ act' = "theme_editor_toggle"
             => (cpc = "theme_toggle" /\ wrote' = <<CMD_THEME_EDITOR_TOGGLE>>)
          /\ act' = "theme_get"
             => (wrote' = <<CMD_THEME_GET>>
                 /\ g_pre["ThemeGet"] = log_is_on_before_special_op)]_vars

C12_Witness ==
    /\ act = "theme_get" /\ wrote = <<CMD_THEME_GET>>
    /\ log_is_on_before_special_op /\ g_pre["ThemeGet"]
    /\ expecting_theme_string

\* C13: every finalization of a capture is followed by a written log toggle exactly
\* when a log toggle was written before that capture's request.
C13_RestoreIffPaused ==
    /\ [][fin'.op # "none" => ((rpc' = "finalize_log") <=> g_pre[fin'.op])]_vars
    /\ [][act' = "finalize_log" => wrote' = <<CMD_TOGGLE_LOG>>]_vars
    /\ [][(act' \in {"read_nothing", "receive", "finalize_theme"})
            => ~Has(wrote', CMD_TOGGLE_LOG)]_vars

\* C14: on an open connection with no request under way, no capture open and no
\* finalization in progress, the device logs exactly when the log is remembered on.
C14_DeviceLogMatches ==
    (/\ ser_open /\ connected /\ cpc = "idle" /\ rpc = "loop"
     /\ Mode = "Idle" /\ ~theme_get_sequence_active)
    => (devLog = log_is_on_before_special_op)

Queued == SubSeq(data_queue', Len(data_queue) + 1, Len(data_queue'))

\* the step is a dispatcher step that tried to write to the open port
DispatcherWrites ==
    /\ ser_open
    /\ \/ act' \in {"send_screenshot", "send_show_mem", "theme_editor_toggle",
                    "theme_get", "send_radio_command", "refresh_memory"}
       \/ act' = "request_screenshot" /\ ScreenshotRequestAllowed
       \/ act' = "request_radio_theme" /\ ThemeRequestAllowed

\* C16: every dispatcher step whose write to the port fails puts a
\* serial_error_disconnect event.
C16_WriteFailureReported ==
    [][(DispatcherWrites /\ ~link)
        => \E i \in 1..Len(Queued) : Queued[i].type = "serial_error_disconnect"]_vars

\* the text of the corruption error of a capture that had data
CorruptionMessage(operation_type) ==
    CASE operation_type = "Screenshot" ->
            Msg("Unicode corruption after receiving some data for Screenshot.")
      [] operation_type = "Memory" ->
            Msg("Unicode corruption after receiving some data for Memory.")
      [] operation_type = "ThemeGet" ->
            Msg("Unicode corruption after receiving some data for ThemeGet.")

\* C17: an undecodable line handled while a capture with data buffered is open puts
\* the success event carrying that buffer and the corruption error event, and closes
\* the capture.
C17_CorruptionDeliversPartial ==
    [][/\ (HandledLine /\ ~AsciiDecodable(rx'.text) /\ Mode = "CapturingImage"
             /\ screenshot_hex_buffer # <<>>)
          => /\ \E i \in 1..Len(Put) : Put[i] = Ev("screenshot_data", screenshot_hex_buffer)
             /\ \E i \in 1..Len(Put) :
                    Put[i] = Ev("screenshot_error", CorruptionMessage("Screenshot"))
             /\ ~expecting_screenshot_data'
       /\ (HandledLine /\ ~AsciiDecodable(rx'.text) /\ Mode = "CapturingMemory"
             /\ memory_slots_buffer # <<>>)
          => /\ \E i \in 1..Len(Put) : Put[i] = Ev("memory_slots_data", memory_slots_buffer)
             /\ \E i \in 1..Len(Put) :
                    Put[i] = Ev("memory_slots_error", CorruptionMessage("Memory"))
             /\ ~expecting_memory_slots']_vars

\* C18: a line handled while no capture is open is put on the queue exactly when it
\* matches the telemetry pattern; handling any other line puts nothing, and no
\* line changes the capture state.
C18_IdleQueuesTelemetryOnly ==
    [][(HandledLine /\ Mode = "Idle")
        => /\ Put = IF HandledTelemetry THEN <<Ev("line", HandledText)>> ELSE <<>>
           /\ UNCHANGED <<ssVars, memVars, themeVars>>]_vars

\* C19: a read that raises makes the reader put one serial_error_disconnect event,
\* as the last thing it puts, and leave the loop with running cleared; the reader of
\* one connection puts at most one such event.
C19_ReadErrorReportedOnce ==
    /\ [](g_readerErrors <= 1)
    /\ [][act' = "read_error"
            => \/ g_readerErrors' = g_readerErrors + 1
               \/ rpc' \in {"finalize_theme", "finalize_log"} /\ Errors(rafter') = 1]_vars
    /\ [][(rpc \in {"finalize_theme", "finalize_log"} /\ Dying(rafter) /\ rpc' # rpc)
            => \/ rpc' = "finalize_log" /\ rafter' = rafter
               \/ g_readerErrors' = g_readerErrors + 1]_vars
    /\ [][g_readerErrors' = g_readerErrors + 1
            => /\ Errors(Queued) = 1
               /\ Queued[Len(Queued)].type = "serial_error_disconnect"
               /\ rpc' = "stopped" /\ ~running']_vars

C19_Witness ==
    /\ act = "read_error" /\ ~link /\ ser_open
    /\ rpc = "stopped" /\ ~running /\ g_readerErrors = 1
    /\ data_queue # <<>>
    /\ LastEvent = Ev("serial_error_disconnect", Msg("Serial read error"))

CaptureEvents ==
    {"screenshot_data", "screenshot_error", "memory_slots_data", "memory_slots_error",
     "theme_data", "theme_data_error"}

\* C20: once disconnect() has been called with a capture open, no capture event and
\* no serial_error_disconnect event is put for that connection, and when it has
\* returned the buffers are empty.
C20_NothingAfterDisconnect ==
    /\ [][g_stopOpen
            => \A i \in 1..Len(Queued) :
                   Queued[i].type \notin CaptureEvents \cup {"serial_error_disconnect"}]_vars
    /\ []((g_stopOpen /\ ~ser_open)
            => (screenshot_hex_buffer = <<>> /\ memory_slots_buffer = <<>>
                /\ theme_string_buffer = <<>>))

\* process_serial_queue took an item in this step
Took == act' = "process_serial_queue" /\ data_queue # <<>>

IsPrefix(s, t) == Len(s) <= Len(t) /\ SubSeq(t, 1, Len(s)) = s

\* C21: the consumer takes the events in the order they were put: the item a pass
\* of process_serial_queue takes is the oldest one waiting and only that one leaves
\* the queue, and every other step leaves the waiting events in place, in order,
\* putting new ones behind them.
C21_QueueIsFifo ==
    [][IF Took
       THEN queue_item' = Head(data_queue) /\ data_queue' = Tail(data_queue)
       ELSE IsPrefix(data_queue, data_queue')]_vars

\* one read put two different events, and the poll has taken the first of them
C21_Witness ==
    /\ act = "process_serial_queue"
    /\ queue_item = Ev("screenshot_error",
                       Msg("UnicodeDecodeError at start of Screenshot data."))
    /\ data_queue = <<Ev("screenshot_error", NoDataMessage("Screenshot"))>>

PollLabels == {"poll_first", "poll_again", "poll_get_first", "poll_get"}

C24_FifteenOrMoreAccepted ==
    /\ [][(HandledLine /\ Mode = "Idle" /\ HandledText # <<>>)
          => ((Queued = <<Ev("line", HandledText)>>)
                <=> /\ Len(SplitComma(HandledText)) >= 15
                    /\ IsPaddedDigits(SplitComma(HandledText)[1]))]_vars
    /\ [][(Took /\ Head(data_queue).type = "line"
             /\ Len(SplitComma(Head(data_queue).data)) < 15)
          => telemetry' = telemetry]_vars

\* the lines handled, each with the newline that ended it
RECURSIVE JoinLines(_)
JoinLines(lines) ==
    IF lines = <<>> THEN <<>>
    ELSE Head(lines) \o <<NL>> \o JoinLines(Tail(lines))

\* C25: the lines the reader handles are the newline-delimited segments of the
\* bytes read, in order, and the bytes after the last newline are the tail it
\* keeps: no byte is lost or duplicated, whatever the reads returned.
C25_LinesAreSegments ==
    trace =>
        /\ JoinLines(g_lines) \o line_assembly_buffer_bytes = g_stream
        /\ ~HasNewline(line_assembly_buffer_bytes)
        /\ \A i \in 1..Len(g_lines) : ~HasNewline(g_lines[i])

\* a line put together from two reads has been handled, and a tail is kept
C25_Witness ==
    /\ g_lines = << <<"O", "O", "K">> >>
    /\ line_assembly_buffer_bytes = <<"O">>

C23_AtMostThirtyTwo ==
    /\ Len(memory_slots_buffer) <= MEMORY_SLOTS_FULL
    /\ \A i \in 1..Len(data_queue) :
          data_queue[i].type = "memory_slots_data"
             => Len(data_queue[i].data) <= MEMORY_SLOTS_FULL

\* a full dump of 32 entries waits in the queue while the next request has already
\* opened a new capture
C23_Witness ==
    /\ data_queue # <<>> /\ data_queue[1].type = "memory_slots_data"
    /\ Len(data_queue[1].data) = MEMORY_SLOTS_FULL
    /\ expecting_memory_slots /\ act \in {"refresh_memory", "send_show_mem"}

\* C27: the remembered logging state changes only in the user's toggle of the log
\* that connect() sends, once the toggle was written; every other step leaves it
\* as it is.
C27_RememberedLogFrame ==
    [][log_is_on_before_special_op' # log_is_on_before_special_op
       => act' = "connect" /\ wrote' = <<CMD_TOGGLE_LOG>>]_vars

\* a second connection has toggled the state back off: the disconnect and the
\* commands and captures before it had left it on
C27_Witness ==
    /\ act = "connect" /\ wrote = <<CMD_TOGGLE_LOG>>
    /\ ~log_is_on_before_special_op

\* C30: in an open theme capture a line matching the theme pattern closes the
\* capture in the same step and leaves the color tokens of that line, and nothing
\* else, as the result; a theme_data event carries exactly the tokens of one line.
C30_ThemeLineFinalizes ==
    /\ [][(HandledLine /\ Mode = "CapturingTheme" /\ HandledText # <<>>
             /\ THEME_STRING_LINE_PATTERN(HandledText))
          => /\ ~expecting_theme_string' /\ rpc' = "finalize_theme"
             /\ theme_string_buffer' = ThemeGroup1(HandledText)]_vars
    /\ [](\A i \in 1..Len(data_queue) :
            data_queue[i].type = "theme_data"
               => data_queue[i].data = ThemeGroup1(ThemeLine))

\* the theme line has arrived in an open theme capture and its tokens wait in the
\* queue as theme_data
C30_Witness ==
    /\ act = "finalize_theme" /\ ~expecting_theme_string /\ connected
    /\ data_queue = <<Ev("theme_data", <<"x", "0", "0", "1", "F">>)>>

\* C26: a memory request that runs against the reader's finalization of the
\* memory capture is not lost: once the request has been written and both have
\* completed, on the connection still open, the memory capture is open.
C26_RequestNotLost ==
    (/\ cpc = "idle" /\ rpc \in {"loop", "stopped"}
     /\ connected /\ ser_open /\ running
     /\ devSlot = 1)
       => expecting_memory_slots

\* the step is a call made with the handle closed
ClosedCall(label) == act' = label /\ ~ser_open

\* C28: with the handle closed send_command writes nothing, opens no capture,
\* changes no state and queues no event; request_theme_data queues exactly one
\* theme_data_error and changes nothing else; and no statement that writes to the
\* port runs on a closed handle.
C28_ClosedHandleInert ==
    /\ [][ClosedCall("send_command") => wrote' = <<>> /\ UNCHANGED ctl]_vars
    /\ [][ClosedCall("request_radio_theme")
          => /\ wrote' = <<>>
             /\ data_queue' = Append(data_queue,
                                      Ev("theme_data_error", Msg("Not connected to radio.")))
             /\ UNCHANGED <<ser_open, running, ssVars, memVars, themeVars,
                            log_is_on_before_special_op,
                            line_assembly_buffer_bytes>>]_vars
    /\ [][act' \in {"raw_write", "show_mem_write", "theme_editor_toggle", "theme_get"}
          => ser_open]_vars

\* the step handled a complete line that decodes to text
HandledDecodable == HandledLine /\ AsciiDecodable(rx'.text)

\* C31: an acknowledgment line handled in an open image capture, and a line that
\* does not match the theme pattern handled in an open theme capture, sets that
\* mode's last-activity timestamp to the current time, leaves the three flags and
\* the mode's buffer as they were, and puts no event.
C31_NoiseRefreshesTimer ==
    /\ [][(HandledDecodable /\ Mode = "CapturingImage" /\ IsSimpleResp(HandledText))
          => /\ last_screenshot_hex_byte_time' = now
             /\ screenshot_hex_buffer' = screenshot_hex_buffer
             /\ expecting_screenshot_data'
             /\ UNCHANGED <<expecting_memory_slots, expecting_theme_string>>
             /\ Put = <<>> /\ fin' = NoFin]_vars
    /\ [][(HandledDecodable /\ Mode = "CapturingTheme"
             /\ ~THEME_STRING_LINE_PATTERN(HandledText))
          => /\ last_theme_data_time' = now
             /\ theme_string_buffer' = theme_string_buffer
             /\ expecting_theme_string'
             /\ UNCHANGED <<expecting_screenshot_data, expecting_memory_slots>>
             /\ Put = <<>> /\ fin' = NoFin]_vars

\* an OK line has been handled in a theme capture opened 10.1 s before: the capture
\* is still open, its timestamp is the time of the line and the queue is empty
C31_Witness ==
    /\ act = "receive" /\ rx = [kind |-> "line", text |-> OkLine]
    /\ expecting_theme_string /\ ~expecting_screenshot_data /\ ~expecting_memory_slots
    /\ last_theme_data_time = now /\ now > 100
    /\ data_queue = <<>>

\* the step closes the capture of operation_type
Closes(operation_type) ==
    CASE operation_type = "Screenshot" -> expecting_screenshot_data /\ ~expecting_screenshot_data'
      [] operation_type = "Memory" -> expecting_memory_slots /\ ~expecting_memory_slots'
      [] operation_type = "ThemeGet" -> expecting_theme_string /\ ~expecting_theme_string'

TimedOut(operation_type) ==
    CASE operation_type = "Screenshot" -> ScreenshotTimedOut
      [] operation_type = "Memory" -> MemoryTimedOut
      [] operation_type = "ThemeGet" -> ThemeTimedOut

\* what the line the step handled is, whatever the clock says, ends the capture of
\* operation_type: a line that does not decode, the slot line that fills the dump,
\* a line that is no slot line and no acknowledgment after slot lines, a theme line
EndsByContent(operation_type) ==
    LET bad == ~AsciiDecodable(rx'.text)
        text == HandledText
    IN  CASE operation_type = "Screenshot" -> bad /\ Mode = "CapturingImage"
          [] operation_type = "Memory" ->
                /\ Mode = "CapturingMemory"
                /\ \/ bad
                   \/ /\ text # <<>> /\ _is_memory_slot_line(text)
                      /\ Len(memory_slots_buffer) + 1 >= MEMORY_SLOTS_FULL
                   \/ /\ text # <<>> /\ ~_is_memory_slot_line(text)
                      /\ memory_slots_buffer # <<>>
                      /\ (DATA_LOG_PATTERN(text) \/ ~IsSimpleResp(text))
          [] operation_type = "ThemeGet" ->
                /\ Mode = "CapturingTheme"
                /\ (bad \/ (text # <<>> /\ THEME_STRING_LINE_PATTERN(text)))

\* C32: a read that returned nothing closes at most one capture, and only one whose
\* inactivity window has run out with no partial line pending; a read that returned
\* bytes closes a capture only for what the line it completed is, never for the
\* time that has passed.
C32_TimeoutOnlyOnEmptyRead ==
    /\ [][act' = "read_nothing"
          => /\ Cardinality({op \in Operations : Closes(op)}) <= 1
             /\ \A op \in Operations :
                   Closes(op) => TimedOut(op) /\ line_assembly_buffer_bytes = <<>>]_vars
    /\ [][act' = "receive"
          => \A op \in Operations :
                Closes(op) => rx'.kind = "line" /\ EndsByContent(op)]_vars

\* a read that returned nothing has finalized the image capture by timeout, while
\* the theme capture, timed out as well, is still open
C32_Witness ==
    /\ act = "read_nothing" /\ fin.op = "Screenshot" /\ fin.buf # <<>>
    /\ ~expecting_screenshot_data
    /\ expecting_theme_string /\ ThemeTimedOut

Flag(operation_type) ==
    CASE operation_type = "Screenshot" -> expecting_screenshot_data
      [] operation_type = "Memory" -> expecting_memory_slots
      [] operation_type = "ThemeGet" -> expecting_theme_string

Buffer(operation_type) ==
    CASE operation_type = "Screenshot" -> screenshot_hex_buffer
      [] operation_type = "Memory" -> memory_slots_buffer
      [] operation_type = "ThemeGet" -> theme_string_buffer

LastActivity(operation_type) ==
    CASE operation_type = "Screenshot" -> last_screenshot_hex_byte_time
      [] operation_type = "Memory" -> last_memory_slot_time
      [] operation_type = "ThemeGet" -> last_theme_data_time

\* the steps of send_command and request_theme_data that hold the write of the
\* request for operation_type
EntrySteps(operation_type) ==
    CASE operation_type = "Screenshot" -> {"request_screenshot", "send_screenshot"}
      [] operation_type = "Memory" -> {"refresh_memory", "send_show_mem"}
      [] operation_type = "ThemeGet" -> {"theme_get"}

\* the step is one in which the request for operation_type reaches its write to the
\* port, which succeeds or raises
WritesRequest(operation_type) ==
    \/ act' \in {"send_screenshot", "send_show_mem", "theme_get"}
          /\ act' \in EntrySteps(operation_type)
    \/ /\ act' = "request_screenshot" /\ operation_type = "Screenshot"
       /\ ScreenshotRequestAllowed /\ ser_open /\ ~log_is_on_before_special_op
    \/ /\ act' = "refresh_memory" /\ operation_type = "Memory"
       /\ ser_open /\ ~log_is_on_before_special_op

\* C33: a capture flag goes from false to true only in a step of
\* send_command(CMD_SCREENSHOT), send_command(CMD_SHOW_MEM) or request_theme_data,
\* and the step in which the request reaches its write to the port leaves the flag
\* true, the buffer empty and the timestamp at the current time, also when the
\* write raises: they are set before the write.
C33_EnteredBeforeWrite ==
    [][\A op \in Operations :
          /\ (~Flag(op) /\ Flag(op)') => act' \in EntrySteps(op)
          /\ WritesRequest(op)
                => /\ Flag(op)' /\ Buffer(op)' = <<>> /\ LastActivity(op)' = now'
                   /\ (link => Len(wrote') >= 1)]_vars

\* a screenshot request whose write raised on a dead port: the capture is entered
\* all the same, with an empty buffer and the timestamp of the request
C33_Witness ==
    /\ act \in {"request_screenshot", "send_screenshot"} /\ ~link /\ wrote = <<>>
    /\ expecting_screenshot_data /\ screenshot_hex_buffer = <<>>
    /\ last_screenshot_hex_byte_time = now
    /\ data_queue # <<>> /\ LastEvent.type = "serial_error_disconnect"

\* the step leaves flag, buffer and timestamp of every mode but operation_type
OthersKept(operation_type) ==
    \A other \in Operations \ {operation_type} :
        /\ Flag(other)' = Flag(other)
        /\ Buffer(other)' = Buffer(other)
        /\ LastActivity(other)' = LastActivity(other)

\* C34: _finalize_special_op(X) sets X's flag false and X's timestamp 0 and leaves
\* X's buffer empty when it returns (for a theme fetch after its 50 ms sleep), and
\* no step of it changes the flag, buffer or timestamp of another mode.
C34_FinalizeFrame ==
    [][/\ \A op \in Operations :
             act' = CallLabel(op)
                => /\ ~Flag(op)' /\ LastActivity(op)' = 0
                   /\ (op # "ThemeGet" => Buffer(op)' = <<>>)
                   /\ OthersKept(op)
       /\ act' = "finalize_theme"
             => /\ ~expecting_theme_string' /\ last_theme_data_time' = 0
                /\ theme_string_buffer' = <<>>
                /\ OthersKept("ThemeGet")
       /\ act' = "finalize_log"
             => UNCHANGED <<ssVars, memVars, expecting_theme_string, theme_string_buffer,
                            last_theme_data_time>>]_vars

\* _finalize_special_op("ThemeGet") has returned from its sleep with the tokens of
\* the theme line buffered, while an image and a memory capture are open with data
C34_Witness ==
    /\ act = "finalize_theme" /\ fin.op = "ThemeGet" /\ fin.buf # <<>>
    /\ ~expecting_theme_string /\ theme_string_buffer = <<>> /\ last_theme_data_time = 0
    /\ expecting_screenshot_data /\ screenshot_hex_buffer = HexLineA
    /\ expecting_memory_slots /\ memory_slots_buffer = <<SlotLine(1)>>

\* the line the step handled is text that is no payload, no telemetry and no
\* acknowledgment in the mode it arrived in
Malformed ==
    /\ HandledDecodable /\ HandledText # <<>>
    /\ ~DATA_LOG_PATTERN(HandledText)
    /\ ~IsSimpleResp(HandledText) /\ ~IsSimpleIgnorable(HandledText)
    /\ CASE Mode = "CapturingImage" -> ~_is_hex_string(HandledText)
         [] Mode = "CapturingMemory" -> ~_is_memory_slot_line(HandledText)
         [] Mode = "CapturingTheme" -> ~THEME_STRING_LINE_PATTERN(HandledText)
         [] OTHER -> FALSE

\* C35: a malformed line handled while an image, memory or theme capture is open
\* puts no event, leaves the three flags as they are and leaves the buffer of the
\* open capture as it is.
C35_MalformedDiscarded ==
    [][Malformed
          => /\ Put = <<>> /\ fin' = NoFin
             /\ UNCHANGED <<expecting_screenshot_data, expecting_memory_slots,
                            expecting_theme_string>>
             /\ UNCHANGED <<screenshot_hex_buffer, memory_slots_buffer,
                            theme_string_buffer>>]_vars

\* C36: a read that returns nothing while the line-assembly buffer holds a partial
\* line closes no capture, puts no event and changes no buffer or timestamp, however
\* long the capture has been silent.
C36_PartialLineBlocksTimeout ==
    [][(act' = "read_nothing" /\ line_assembly_buffer_bytes # <<>>)
          => /\ UNCHANGED <<ssVars, memVars, themeVars, line_assembly_buffer_bytes>>
             /\ Put = <<>> /\ fin' = NoFin]_vars

\* a read has returned nothing with a partial line pending and the image capture
\* silent for longer than its window: the capture is still open with its data
C36_Witness ==
    /\ act = "read_nothing" /\ line_assembly_buffer_bytes # <<>>
    /\ ScreenshotTimedOut
    /\ data_queue = <<>>

C37_OneReaderLoop ==
    /\ [](rpc0 # "loop")
    /\ [][(act' \in {"old_read_nothing", "old_read_error"} /\ connected)
            => UNCHANGED <<data_queue, running>>]_vars

\* ---- the FM scan ----

MaxScans == 2           \* scans started in one behaviour

CMD_STEP_NEXT == "S"

\* RadioApp.start_fm_scan with the radio in FM mode: the warning for no connection,
\* the notice for a scan under way, or the fields set and the scan thread started
StartFmScan ==
    /\ cpc = "idle"
    /\ IF connected /\ ~fm_scan_active
       THEN /\ g_scans < MaxScans
            /\ fm_scan_active' = TRUE
            /\ fm_scan_stop_requested' = FALSE
            /\ scan_threads' = scan_threads + 1
            /\ g_scans' = g_scans + 1
            /\ UNCHANGED <<after_complete, g_completes>>
       ELSE UNCHANGED scan
    /\ TkFrame("start_fm_scan", <<>>)
    /\ UNCHANGED <<ctl, connected, cpc, devSlot, ghost, shown, scheduled>>

\* RadioApp.stop_fm_scan
StopFmScan ==
    /\ cpc = "idle"
    /\ fm_scan_stop_requested' = (fm_scan_active \/ fm_scan_stop_requested)
    /\ TkFrame("stop_fm_scan", <<>>)
    /\ UNCHANGED <<ctl, connected, cpc, devSlot, ghost, shown, scheduled,
                   fm_scan_active, scan_threads, after_complete, g_scans, g_completes>>

\* RadioApp._fm_scan_complete run by the Tk thread from an after(0, ...) of a scan
\* thread
RunFmScanComplete ==
    /\ cpc = "idle" /\ after_complete > 0
    /\ after_complete' = after_complete - 1
    /\ fm_scan_active' = FALSE
    /\ g_completes' = g_completes + 1
    /\ TkFrame("fm_scan_complete", <<>>)
    /\ UNCHANGED <<ctl, connected, cpc, devSlot, ghost, shown, scheduled,
                   fm_scan_stop_requested, scan_threads, g_scans>>

\* what a step of a scan thread leaves alone
ScanFrame(label, written) ==
    /\ act' = label /\ wrote' = written /\ rx' = NoRx /\ fin' = NoFin
    /\ Audit(label, written, "none")
    /\ UNCHANGED <<ser_open, running, ssVars, memVars, themeVars,
                   log_is_on_before_special_op, line_assembly_buffer_bytes,
                   connected, now, cpc, rpc, rafter, devSlot, ghost, watch, link,
                   g_readerErrors, audit, shown, scheduled, ui, traced, trace, rpc0>>

\* RadioApp._perform_fm_scan, lines 1561-1563: with no stop requested the thread sends
\* the step command through send_command, whatever self.connected is
ScanTunes ==
    /\ scan_threads > 0 /\ ~fm_scan_stop_requested
    /\ ScanFrame("scan_tunes", IF ser_open THEN SerWrite(CMD_STEP_NEXT) ELSE <<>>)
    /\ IF ser_open THEN SendOutcome ELSE UNCHANGED data_queue
    /\ UNCHANGED scan

\* RadioApp._perform_fm_scan returns: it has seen the stop request (lines 1519-1521,
\* 1561, 1601-1665), or the scan came to its end or failed (lines 1569, 1577, 1665);
\* on every path one after(0, ...) of _fm_scan_complete is left for the Tk thread
ScanReturns ==
    /\ scan_threads > 0
    /\ scan_threads' = scan_threads - 1
    /\ after_complete' = after_complete + 1
    /\ ScanFrame("scan_returns", <<>>)
    /\ UNCHANGED <<data_queue, fm_scan_active, fm_scan_stop_requested, g_scans, g_completes>>

NextScan ==
    \/ Connect
    \/ Disconnect
    \/ DisconnectClose
    \/ StartFmScan
    \/ StopFmScan
    \/ RunFmScanComplete
    \/ ScanTunes
    \/ ScanReturns
    \/ ProcessSerialQueue
    \/ ReadNothing
    \/ ReaderExit
    \/ LinkDown
    \/ \E other \in BOOLEAN : ReadError(other)

SpecScan == Init /\ [][NextScan]_vars

\* C39: the calls of _fm_scan_complete never outnumber the scans that start_fm_scan
\* has started, every scan has had its call once no scan thread runs and no call is
\* pending, and a scan thread is started only while fm_scan_active is false
C39_OneCompletionPerScan ==
    /\ [](g_completes <= g_scans)
    /\ []((scan_threads = 0 /\ after_complete = 0) => g_completes = g_scans)
    /\ [][scan_threads' > scan_threads => ~fm_scan_active]_vars

====
